---- MODULE Spec2Model ----
(***************************************************************************)
(* rmw_dds_common: the graph cache, the Context that pairs every cache     *)
(* mutation with the publication of a ParticipantEntitiesInfo snapshot,    *)
(* and the topic cache.                                                    *)
(*                                                                         *)
(* The module holds several specifications over one set of variables:      *)
(*   SpecCtx    Context lifecycle calls (context.cpp) running on caller    *)
(*              threads, the discovery thread and an introspection thread  *)
(*   SpecGraph  the GraphCache participant API called in any order         *)
(*   SpecGossipEmplace  the gossip operations of the earlier revision of   *)
(*              graph_cache.cpp (src/unnamed/part_007)                     *)
(*   SpecLock   GraphCache calls of that revision split into enter /       *)
(*              return steps around their access to the maps               *)
(*   SpecTopic  TopicCache add_topic / remove_topic                        *)
(*   SpecQos    qos_profile_check_compatible (src/unnamed/part_011)        *)
(*   SpecQosEarlier  qos_profile_check_compatible of the earlier revision  *)
(*              (src/rmw_dds_common/src/qos.cpp)                           *)
(*   SpecResolve  qos_profile_get_best_available_for_subscription,         *)
(*              qos_profile_get_best_available_for_publisher and           *)
(*              qos_profile_update_best_available_for_services             *)
(* A specification leaves the variables of the others unchanged.           *)
(***************************************************************************)
EXTENDS Integers, Sequences, FiniteSets, TLC

\* ------------------------------------------------------------------ bounds
\* number of bytes of a Gid buffer (RMW_GID_STORAGE_SIZE in the source)
GidLen == 2
\* largest number of nodes added through the local API
MaxNodes == 2
\* largest number of reader and writer Gids associated through the calls of SpecGraph
MaxGidSeq == 2

\* largest number of type entries held by either map of the TopicCache
MaxRefs == 2

\* reason buffers of every size up to MaxSmallSize, and of the first MaxSteps
\* multiples of MaxSmallSize, are passed to qos_profile_check_compatible
MaxSmallSize == 10
MaxSteps == 12

\* largest number of endpoints a best-available profile is resolved against
MaxPeers == 2

\* ------------------------------------------------------------------- Gids
\* an rmw_gid_t is modelled by its data buffer, a tuple of GidLen bytes
MkGid(n) == [i \in 1..GidLen |-> IF i = GidLen THEN n ELSE 0]

\* Context::gid, the Gid of the local participant
LocalGid == MkGid(1)
\* a participant of another process
RemoteGid == MkGid(2)
ParticipantGids == {LocalGid, RemoteGid}
\* Gids of data readers and data writers
EntityGids == {MkGid(11), MkGid(12)}

NodeNames == {"a", "b"}
NodeNamespaces == {"/"}

\* rmw_ret_t
RMW_RET_OK == 0
RMW_RET_ERROR == 1

VARIABLES
  participants,      \* GraphCache::participants_ : Gid -> sequence of NodeEntitiesInfo
  data_writers,      \* GraphCache::data_writers_ : Gid -> EntityInfo
  data_readers,      \* GraphCache::data_readers_ : Gid -> EntityInfo
  gc_ret,            \* what the last GraphCache call of SpecGraph returned
  node_update_mutex, \* Context::node_update_mutex: "free" or the thread holding it
  pc,                \* position of each Context caller thread
  call,              \* the Context call each caller thread is in
  msg,               \* the local variable msg of that call
  rmw_ret,           \* what publish_callback returned to that call
  retval,            \* the value that call returns
  pre,               \* the local participant's node list when the call took the mutex
  seen,              \* entity Gids the introspection thread last saw under the local participant
  gmutex,            \* GraphCache::mutex_: "free" or the thread holding it
  gpc,               \* position of each thread of SpecLock inside its GraphCache call
  gcall,             \* the GraphCache call each thread of SpecLock is in
  topic_to_types,    \* TopicCache::topic_to_types_
  participant_to_nodes_to_topics, \* TopicCache::participant_to_nodes_to_topics_
  tc_ret,            \* what the last TopicCache call returned
  qos_call,          \* the arguments of a call of a function of qos.cpp
  qos_ret            \* what that call returned and wrote through its pointers

gcVars == <<participants, data_writers, data_readers>>
ctxVars == <<node_update_mutex, pc, call, msg, rmw_ret, retval, pre>>
lockVars == <<gmutex, gpc, gcall>>
qosVars == <<qos_call, qos_ret>>
topicVars == <<topic_to_types, participant_to_nodes_to_topics, tc_ret>>
\* the variables the Context specification leaves alone
otherThanCtx == <<data_writers, data_readers, gc_ret, lockVars, topicVars, qosVars>>
vars == <<participants, data_writers, data_readers, gc_ret,
          node_update_mutex, pc, call, msg, rmw_ret, retval, pre, seen,
          gmutex, gpc, gcall,
          topic_to_types, participant_to_nodes_to_topics, tc_ret,
          qos_call, qos_ret>>

\* ------------------------------------------------------------ std::map
EmptyMap == [x \in {} |-> 0]
MapPut(m, k, v) == [x \in (DOMAIN m) \cup {k} |-> IF x = k THEN v ELSE m[x]]
MapErase(m, k) == [x \in (DOMAIN m) \ {k} |-> m[x]]

\* ------------------------------------------------------------ messages
\* memcpy of the Gid buffer into the message field
convert_gid_to_msg(gid) == [data |-> gid]
\* memcpy of the message field into a Gid buffer
convert_msg_to_gid(msg_gid) == msg_gid.data

NodeEntitiesInfo(node_name, node_namespace) ==
  [node_name |-> node_name, node_namespace |-> node_namespace,
   reader_gid_seq |-> <<>>, writer_gid_seq |-> <<>>]

create_participant_info_message(gid, info) ==
  [gid |-> convert_gid_to_msg(gid), node_entities_info_seq |-> info]

\* ------------------------------------------------ sequences (std::vector)
\* index of the first element whose test result hit[i] is TRUE, 0 when there is
\* none (std::find_if over the sequence of the predicate's results)
FindIf(hit) ==
  IF \E i \in 1..Len(hit) : hit[i]
  THEN CHOOSE i \in 1..Len(hit) : hit[i] /\ \A j \in 1..(i - 1) : ~hit[j]
  ELSE 0
\* s without its i-th element (vector::erase(it))
EraseAt(s, i) == [j \in 1..(Len(s) - 1) |-> IF j < i THEN s[j] ELSE s[j + 1]]

\* ------------------------------------------------------------ GraphCache
\* Each mutator of the local API yields the new participants_ map and the
\* message it returns.
NodeMatches(node_info, node_name, node_namespace) ==
  node_info.node_name = node_name /\ node_info.node_namespace = node_namespace

HasNode(p, participant_gid, node_name, node_namespace) ==
  /\ participant_gid \in DOMAIN p
  /\ \E i \in 1..Len(p[participant_gid]) :
       NodeMatches(p[participant_gid][i], node_name, node_namespace)

\* an add_participant that resets the node list of a known participant
add_participant_reset(p, participant_gid) == MapPut(p, participant_gid, <<>>)
\* participants_.emplace(participant_gid): inserts an empty list unless the
\* key is present
add_participant(p, participant_gid) ==
  IF participant_gid \in DOMAIN p THEN p ELSE MapPut(p, participant_gid, <<>>)

update_participant_entities(p, m) ==
  MapPut(p, convert_msg_to_gid(m.gid), m.node_entities_info_seq)

remove_participant(p, participant_gid) ==
  [participants |-> MapErase(p, participant_gid), ret |-> participant_gid \in DOMAIN p]

\* assert(it != participants_.end())
add_node(p, participant_gid, node_name, node_namespace) ==
  LET q == [p EXCEPT ![participant_gid] =
                Append(@, NodeEntitiesInfo(node_name, node_namespace))]
  IN [participants |-> q,
      msg |-> create_participant_info_message(participant_gid, q[participant_gid])]

\* a remove_node that erases nothing
remove_node_kept(p, participant_gid, node_name, node_namespace) ==
  [participants |-> p,
   msg |-> create_participant_info_message(participant_gid, p[participant_gid])]
\* assert(it != participants_.end()); assert(new_end != it->second.end())
remove_node(p, participant_gid, node_name, node_namespace) ==
  LET Keep(node_info) == ~NodeMatches(node_info, node_name, node_namespace)
      q == [p EXCEPT ![participant_gid] = SelectSeq(@, Keep)]
  IN [participants |-> q,
      msg |-> create_participant_info_message(participant_gid, q[participant_gid])]

\* the functors handed to __modify_node_info
add_writer_gid(info, gid) ==
  [info EXCEPT !.writer_gid_seq = Append(@, convert_gid_to_msg(gid))]
add_reader_gid(info, gid) ==
  [info EXCEPT !.reader_gid_seq = Append(@, convert_gid_to_msg(gid))]
delete_writer_gid(info, gid) ==
  LET it == FindIf([i \in 1..Len(info.writer_gid_seq) |->
                      info.writer_gid_seq[i] = convert_gid_to_msg(gid)])
  IN IF it # 0 THEN [info EXCEPT !.writer_gid_seq = EraseAt(@, it)] ELSE info
delete_reader_gid(info, gid) ==
  LET it == FindIf([i \in 1..Len(info.reader_gid_seq) |->
                      info.reader_gid_seq[i] = convert_gid_to_msg(gid)])
  IN IF it # 0 THEN [info EXCEPT !.reader_gid_seq = EraseAt(@, it)] ELSE info

\* assert(participant_info != participant_map.end());
\* assert(node_info != participant_info->second.end())
find_node_info(p, participant_gid, node_name, node_namespace) ==
  FindIf([i \in 1..Len(p[participant_gid]) |->
            NodeMatches(p[participant_gid][i], node_name, node_namespace)])
\* a __modify_node_info that builds its message before applying the modification
modify_node_info_stale(p, participant_gid, node_info, func_result) ==
  [participants |-> [p EXCEPT ![participant_gid][node_info] = func_result],
   msg |-> create_participant_info_message(participant_gid, p[participant_gid])]
\* func_result is func(*node_info), the found element after the caller's
\* std::function has modified it
modify_node_info(p, participant_gid, node_info, func_result) ==
  LET q == [p EXCEPT ![participant_gid][node_info] = func_result]
  IN [participants |-> q,
      msg |-> create_participant_info_message(participant_gid, q[participant_gid])]

associate_writer(p, writer_gid, participant_gid, node_name, node_namespace) ==
  LET node_info == find_node_info(p, participant_gid, node_name, node_namespace)
  IN modify_node_info(p, participant_gid, node_info,
                      add_writer_gid(p[participant_gid][node_info], writer_gid))
\* a dissociate_writer that leaves the writer Gid in the list
dissociate_writer_kept(p, writer_gid, participant_gid, node_name, node_namespace) ==
  [participants |-> p,
   msg |-> create_participant_info_message(participant_gid, p[participant_gid])]
dissociate_writer(p, writer_gid, participant_gid, node_name, node_namespace) ==
  LET node_info == find_node_info(p, participant_gid, node_name, node_namespace)
  IN modify_node_info(p, participant_gid, node_info,
                      delete_writer_gid(p[participant_gid][node_info], writer_gid))
associate_reader(p, reader_gid, participant_gid, node_name, node_namespace) ==
  LET node_info == find_node_info(p, participant_gid, node_name, node_namespace)
  IN modify_node_info(p, participant_gid, node_info,
                      add_reader_gid(p[participant_gid][node_info], reader_gid))
\* a dissociate_reader that leaves the reader Gid in the list
dissociate_reader_kept(p, reader_gid, participant_gid, node_name, node_namespace) ==
  [participants |-> p,
   msg |-> create_participant_info_message(participant_gid, p[participant_gid])]
dissociate_reader(p, reader_gid, participant_gid, node_name, node_namespace) ==
  LET node_info == find_node_info(p, participant_gid, node_name, node_namespace)
  IN modify_node_info(p, participant_gid, node_info,
                      delete_reader_gid(p[participant_gid][node_info], reader_gid))

\* entity Gids listed by a node list, in either role
GidsOf(info) ==
  UNION {{convert_msg_to_gid(info[i].reader_gid_seq[j]) : j \in 1..Len(info[i].reader_gid_seq)}
           \cup {convert_msg_to_gid(info[i].writer_gid_seq[j]) : j \in 1..Len(info[i].writer_gid_seq)}
         : i \in 1..Len(info)}
ReaderGidsOfNode(info, node_name, node_namespace) ==
  UNION {{convert_msg_to_gid(info[i].reader_gid_seq[j]) : j \in 1..Len(info[i].reader_gid_seq)}
         : i \in {k \in 1..Len(info) : NodeMatches(info[k], node_name, node_namespace)}}
WriterGidsOfNode(info, node_name, node_namespace) ==
  UNION {{convert_msg_to_gid(info[i].writer_gid_seq[j]) : j \in 1..Len(info[i].writer_gid_seq)}
         : i \in {k \in 1..Len(info) : NodeMatches(info[k], node_name, node_namespace)}}

\* ================================================================ Context
Callers == {"t1", "t2"}
NoGid == <<>>
NoCall == [fn |-> "none", gid1 |-> NoGid, gid2 |-> NoGid, name |-> "", namespace_ |-> ""]
NoMsg == [gid |-> convert_gid_to_msg(NoGid), node_entities_info_seq |-> <<>>]
\* gc_ret before any GraphCache call: the operation called, its participant
\* Gid, the message it was given (arg), the message it returned (msg), its bool
\* no GraphCache call in progress on a thread of SpecLock
NoGraphCall == [op |-> "none", gid |-> NoGid, arg |-> NoMsg, raced |-> FALSE]
\* tc_ret before any TopicCache call
\* (recorded: the tuple was recorded when the call began; changed: the call
\* changed one of the two maps)
NoTopicRet == [op |-> "none", ret |-> FALSE, recorded |-> FALSE, changed |-> FALSE]
NoRet == [op |-> "none", gid |-> NoGid, arg |-> NoMsg, msg |-> NoMsg, ret |-> FALSE]
GcRet(op, gid, arg, m, ret) == [op |-> op, gid |-> gid, arg |-> arg, msg |-> m, ret |-> ret]

Call(fn, gid1, gid2, name, namespace_) ==
  [fn |-> fn, gid1 |-> gid1, gid2 |-> gid2, name |-> name, namespace_ |-> namespace_]

\* the local participant's node list
LocalNodes == participants[LocalGid]
\* the caller hands in the Gid of an entity it has just created: a Gid that
\* no node of the local participant lists yet
Fresh(gid) == gid \notin GidsOf(LocalNodes)

\* an entry that does not wait for node_update_mutex
Enter_unguarded(t, c, r, next) ==
  /\ pc[t] = "idle"
  /\ node_update_mutex' = t
  /\ pre' = [pre EXCEPT ![t] = LocalNodes]
  /\ call' = [call EXCEPT ![t] = c]
  /\ participants' = r.participants
  /\ msg' = [msg EXCEPT ![t] = r.msg]
  /\ pc' = [pc EXCEPT ![t] = next]
  /\ UNCHANGED <<rmw_ret, retval, seen, otherThanCtx>>

\* std::lock_guard<std::mutex> guard(node_update_mutex) followed by the first
\* GraphCache call of the function; r is what that call yields
Enter(t, c, r, next) ==
  /\ pc[t] = "idle"
  /\ node_update_mutex = "free"
  /\ node_update_mutex' = t
  /\ pre' = [pre EXCEPT ![t] = LocalNodes]
  /\ call' = [call EXCEPT ![t] = c]
  /\ participants' = r.participants
  /\ msg' = [msg EXCEPT ![t] = r.msg]
  /\ pc' = [pc EXCEPT ![t] = next]
  /\ UNCHANGED <<rmw_ret, retval, seen, otherThanCtx>>

\* a further GraphCache call of the function the thread is in
GraphCall(t, fn, at, r, next) ==
  /\ pc[t] = at
  /\ call[t].fn = fn
  /\ participants' = r.participants
  /\ msg' = [msg EXCEPT ![t] = r.msg]
  /\ pc' = [pc EXCEPT ![t] = next]
  /\ UNCHANGED <<node_update_mutex, call, rmw_ret, retval, pre, seen, otherThanCtx>>

\* the same, for a call of the rollback, whose returned message is discarded;
\* the last one is followed by return rmw_ret
GraphCallVoid(t, fn, at, r, next) ==
  /\ pc[t] = at
  /\ call[t].fn = fn
  /\ participants' = r.participants
  /\ pc' = [pc EXCEPT ![t] = next]
  /\ retval' = [retval EXCEPT ![t] = IF next = "return" THEN rmw_ret[t] ELSE @]
  /\ UNCHANGED <<node_update_mutex, call, msg, rmw_ret, pre, seen, otherThanCtx>>

\* return publish_callback(pub, &msg);
PublishAndReturn(t, fn) ==
  /\ pc[t] = "publish"
  /\ call[t].fn = fn
  /\ \E r \in {RMW_RET_OK, RMW_RET_ERROR} :
       /\ rmw_ret' = [rmw_ret EXCEPT ![t] = r]
       /\ retval' = [retval EXCEPT ![t] = r]
  /\ pc' = [pc EXCEPT ![t] = "return"]
  /\ UNCHANGED <<participants, node_update_mutex, call, msg, pre, seen, otherThanCtx>>

\* rmw_ret = publish_callback(pub, &msg); if (RMW_RET_OK != rmw_ret) { roll back }
PublishOrRollback(t, fn) ==
  /\ pc[t] = "publish"
  /\ call[t].fn = fn
  /\ \E r \in {RMW_RET_OK, RMW_RET_ERROR} :
       /\ rmw_ret' = [rmw_ret EXCEPT ![t] = r]
       /\ pc' = [pc EXCEPT ![t] = IF r # RMW_RET_OK THEN "rollback" ELSE "return"]
       /\ retval' = [retval EXCEPT ![t] = RMW_RET_OK]
  /\ UNCHANGED <<participants, node_update_mutex, call, msg, pre, seen, otherThanCtx>>

update_node_graph(t) ==
  \/ \E name \in NodeNames, namespace_ \in NodeNamespaces :
       /\ LocalGid \in DOMAIN participants
       /\ Len(LocalNodes) < MaxNodes
       /\ Enter(t, Call("update_node_graph", NoGid, NoGid, name, namespace_),
                add_node(participants, LocalGid, name, namespace_), "publish")
  \/ PublishAndReturn(t, "update_node_graph")

destroy_node_graph(t) ==
  \/ \E name \in NodeNames, namespace_ \in NodeNamespaces :
       /\ HasNode(participants, LocalGid, name, namespace_)
       /\ Enter(t, Call("destroy_node_graph", NoGid, NoGid, name, namespace_),
                remove_node(participants, LocalGid, name, namespace_), "publish")
  \/ PublishAndReturn(t, "destroy_node_graph")

update_subscriber_graph(t) ==
  \/ \E subscription_gid \in EntityGids, name \in NodeNames, namespace_ \in NodeNamespaces :
       /\ HasNode(participants, LocalGid, name, namespace_)
       /\ Fresh(subscription_gid)
       /\ Enter(t, Call("update_subscriber_graph", subscription_gid, NoGid, name, namespace_),
                associate_reader(participants, subscription_gid, LocalGid, name, namespace_),
                "publish")
  \/ PublishOrRollback(t, "update_subscriber_graph")
  \/ GraphCallVoid(t, "update_subscriber_graph", "rollback",
                   dissociate_reader(participants, call[t].gid1, LocalGid,
                                     call[t].name, call[t].namespace_),
                   "return")

destroy_subscriber_graph(t) ==
  \/ \E subscription_gid \in EntityGids, name \in NodeNames, namespace_ \in NodeNamespaces :
       /\ HasNode(participants, LocalGid, name, namespace_)
       /\ subscription_gid \in ReaderGidsOfNode(LocalNodes, name, namespace_)
       /\ Enter(t, Call("destroy_subscriber_graph", subscription_gid, NoGid, name, namespace_),
                dissociate_reader(participants, subscription_gid, LocalGid, name, namespace_),
                "publish")
  \/ PublishAndReturn(t, "destroy_subscriber_graph")

update_publisher_graph(t) ==
  \/ \E publisher_gid \in EntityGids, name \in NodeNames, namespace_ \in NodeNamespaces :
       /\ HasNode(participants, LocalGid, name, namespace_)
       /\ Fresh(publisher_gid)
       /\ Enter(t, Call("update_publisher_graph", publisher_gid, NoGid, name, namespace_),
                associate_writer(participants, publisher_gid, LocalGid, name, namespace_),
                "publish")
  \/ PublishOrRollback(t, "update_publisher_graph")
  \/ GraphCallVoid(t, "update_publisher_graph", "rollback",
                   dissociate_writer(participants, call[t].gid1, LocalGid,
                                     call[t].name, call[t].namespace_),
                   "return")

destroy_publisher_graph(t) ==
  \/ \E publisher_gid \in EntityGids, name \in NodeNames, namespace_ \in NodeNamespaces :
       /\ HasNode(participants, LocalGid, name, namespace_)
       /\ publisher_gid \in WriterGidsOfNode(LocalNodes, name, namespace_)
       /\ Enter(t, Call("destroy_publisher_graph", publisher_gid, NoGid, name, namespace_),
                dissociate_writer(participants, publisher_gid, LocalGid, name, namespace_),
                "publish")
  \/ PublishAndReturn(t, "destroy_publisher_graph")

\* gid1 is request_publisher_gid, gid2 is response_subscriber_gid
update_client_graph(t) ==
  \/ \E request_publisher_gid \in EntityGids, response_subscriber_gid \in EntityGids,
        name \in NodeNames, namespace_ \in NodeNamespaces :
       /\ HasNode(participants, LocalGid, name, namespace_)
       /\ Fresh(request_publisher_gid) /\ Fresh(response_subscriber_gid)
       /\ request_publisher_gid # response_subscriber_gid
       /\ Enter(t, Call("update_client_graph", request_publisher_gid,
                        response_subscriber_gid, name, namespace_),
                associate_writer(participants, request_publisher_gid, LocalGid,
                                 name, namespace_),
                "second")
  \/ GraphCall(t, "update_client_graph", "second",
               associate_reader(participants, call[t].gid2, LocalGid,
                                call[t].name, call[t].namespace_),
               "publish")
  \/ PublishOrRollback(t, "update_client_graph")
  \/ GraphCallVoid(t, "update_client_graph", "rollback",
                   dissociate_reader(participants, call[t].gid2, LocalGid,
                                     call[t].name, call[t].namespace_),
                   "rollback2")
  \/ GraphCallVoid(t, "update_client_graph", "rollback2",
                   dissociate_writer(participants, call[t].gid1, LocalGid,
                                     call[t].name, call[t].namespace_),
                   "return")

destroy_client_graph(t) ==
  \/ \E request_publisher_gid \in EntityGids, response_subscriber_gid \in EntityGids,
        name \in NodeNames, namespace_ \in NodeNamespaces :
       /\ HasNode(participants, LocalGid, name, namespace_)
       /\ request_publisher_gid \in WriterGidsOfNode(LocalNodes, name, namespace_)
       /\ response_subscriber_gid \in ReaderGidsOfNode(LocalNodes, name, namespace_)
       /\ Enter(t, Call("destroy_client_graph", request_publisher_gid,
                        response_subscriber_gid, name, namespace_),
                dissociate_writer(participants, request_publisher_gid, LocalGid,
                                  name, namespace_),
                "second")
  \/ GraphCall(t, "destroy_client_graph", "second",
               dissociate_reader(participants, call[t].gid2, LocalGid,
                                 call[t].name, call[t].namespace_),
               "publish")
  \/ PublishAndReturn(t, "destroy_client_graph")

\* gid1 is request_subscriber_gid, gid2 is response_publisher_gid
update_service_graph(t) ==
  \/ \E request_subscriber_gid \in EntityGids, response_publisher_gid \in EntityGids,
        name \in NodeNames, namespace_ \in NodeNamespaces :
       /\ HasNode(participants, LocalGid, name, namespace_)
       /\ Fresh(request_subscriber_gid) /\ Fresh(response_publisher_gid)
       /\ request_subscriber_gid # response_publisher_gid
       /\ Enter(t, Call("update_service_graph", request_subscriber_gid,
                        response_publisher_gid, name, namespace_),
                associate_reader(participants, request_subscriber_gid, LocalGid,
                                 name, namespace_),
                "second")
  \/ GraphCall(t, "update_service_graph", "second",
               associate_writer(participants, call[t].gid2, LocalGid,
                                call[t].name, call[t].namespace_),
               "publish")
  \/ PublishOrRollback(t, "update_service_graph")
  \/ GraphCallVoid(t, "update_service_graph", "rollback",
                   dissociate_writer(participants, call[t].gid2, LocalGid,
                                     call[t].name, call[t].namespace_),
                   "rollback2")
  \/ GraphCallVoid(t, "update_service_graph", "rollback2",
                   dissociate_reader(participants, call[t].gid1, LocalGid,
                                     call[t].name, call[t].namespace_),
                   "return")

destroy_service_graph(t) ==
  \/ \E request_subscriber_gid \in EntityGids, response_publisher_gid \in EntityGids,
        name \in NodeNames, namespace_ \in NodeNamespaces :
       /\ HasNode(participants, LocalGid, name, namespace_)
       /\ request_subscriber_gid \in ReaderGidsOfNode(LocalNodes, name, namespace_)
       /\ response_publisher_gid \in WriterGidsOfNode(LocalNodes, name, namespace_)
       /\ Enter(t, Call("destroy_service_graph", request_subscriber_gid,
                        response_publisher_gid, name, namespace_),
                dissociate_reader(participants, request_subscriber_gid, LocalGid,
                                  name, namespace_),
                "second")
  \/ GraphCall(t, "destroy_service_graph", "second",
               dissociate_writer(participants, call[t].gid2, LocalGid,
                                 call[t].name, call[t].namespace_),
               "publish")
  \/ PublishAndReturn(t, "destroy_service_graph")

\* the function returns rmw_ret and the lock_guard releases node_update_mutex
ContextReturn(t) ==
  /\ pc[t] = "return"
  /\ node_update_mutex' = IF node_update_mutex = t THEN "free" ELSE node_update_mutex
  /\ pc' = [pc EXCEPT ![t] = "idle"]
  /\ call' = [call EXCEPT ![t] = NoCall]
  /\ msg' = [msg EXCEPT ![t] = NoMsg]
  /\ rmw_ret' = [rmw_ret EXCEPT ![t] = RMW_RET_OK]
  /\ retval' = [retval EXCEPT ![t] = RMW_RET_OK]
  /\ pre' = [pre EXCEPT ![t] = <<>>]
  /\ UNCHANGED <<participants, seen, otherThanCtx>>

\* the discovery thread applies the gossip of the other participant
RemoteNode == [NodeEntitiesInfo("a", "/") EXCEPT
                 !.reader_gid_seq = <<convert_gid_to_msg(MkGid(21))>>]
RemoteMsgs == {create_participant_info_message(RemoteGid, <<>>),
               create_participant_info_message(RemoteGid, <<RemoteNode>>)}
discovery_update(m) ==
  /\ participants' = update_participant_entities(participants, m)
  /\ UNCHANGED <<ctxVars, seen, otherThanCtx>>
discovery_remove_participant ==
  /\ RemoteGid \in DOMAIN participants
  /\ participants' = remove_participant(participants, RemoteGid).participants
  /\ UNCHANGED <<ctxVars, seen, otherThanCtx>>

\* an introspection thread prints the graph cache (operator<<): seen is the
\* set of entity Gids printed under the local participant
print_graph_cache ==
  /\ LocalGid \in DOMAIN participants
  /\ seen' = GidsOf(LocalNodes)
  /\ UNCHANGED <<participants, ctxVars, otherThanCtx>>

CtxIdle ==
  /\ node_update_mutex = "free"
  /\ pc = [t \in Callers |-> "idle"]
  /\ call = [t \in Callers |-> NoCall]
  /\ msg = [t \in Callers |-> NoMsg]
  /\ rmw_ret = [t \in Callers |-> RMW_RET_OK]
  /\ retval = [t \in Callers |-> RMW_RET_OK]
  /\ pre = [t \in Callers |-> <<>>]
  /\ seen = {}
GraphIdle ==
  /\ data_writers = EmptyMap
  /\ data_readers = EmptyMap
  /\ gc_ret = NoRet
LockIdle ==
  /\ gmutex = "free"
  /\ gpc = [t \in Callers |-> "idle"]
  /\ gcall = [t \in Callers |-> NoGraphCall]
\* no function of qos.cpp has been called
QosIdle ==
  /\ qos_call = [fn |-> "none"]
  /\ qos_ret = [fn |-> "none"]
TopicIdle ==
  /\ topic_to_types = EmptyMap
  /\ participant_to_nodes_to_topics = EmptyMap
  /\ tc_ret = NoTopicRet

\* the Context after the middleware registered its participant
InitCtx ==
  /\ participants = add_participant(EmptyMap, LocalGid)
  /\ CtxIdle /\ GraphIdle /\ LockIdle /\ TopicIdle /\ QosIdle

NextCtx ==
  \/ \E t \in Callers : update_node_graph(t)
  \/ \E t \in Callers : destroy_node_graph(t)
  \/ \E t \in Callers : update_subscriber_graph(t)
  \/ \E t \in Callers : destroy_subscriber_graph(t)
  \/ \E t \in Callers : update_publisher_graph(t)
  \/ \E t \in Callers : destroy_publisher_graph(t)
  \/ \E t \in Callers : update_client_graph(t)
  \/ \E t \in Callers : destroy_client_graph(t)
  \/ \E t \in Callers : update_service_graph(t)
  \/ \E t \in Callers : destroy_service_graph(t)
  \/ \E t \in Callers : ContextReturn(t)
  \/ \E m \in RemoteMsgs : discovery_update(m)
  \/ discovery_remove_participant
  \/ print_graph_cache

SpecCtx == InitCtx /\ [][NextCtx]_vars

\* ------------------------------------------------- claims on the Context
\* the call of thread t has reached its return statement after
\* publish_callback returned a not-OK code
FailedReturn(t, fns) ==
  /\ pc[t] = "return"
  /\ call[t].fn \in fns
  /\ rmw_ret[t] # RMW_RET_OK

\* C1: when publish_callback returns a not-OK code to update_subscriber_graph
\* or update_publisher_graph, the call returns a failure code and the local
\* participant's node list, reader and writer Gid lists included, equals the
\* list the call found.
C1_CreateRollsBack ==
  \A t \in Callers :
    FailedReturn(t, {"update_subscriber_graph", "update_publisher_graph"})
      => /\ retval[t] # RMW_RET_OK
         /\ LocalNodes = pre[t]
\* a failed creation returns with another entity already associated
C1_Witness ==
  \E t \in Callers :
    /\ FailedReturn(t, {"update_subscriber_graph", "update_publisher_graph"})
    /\ retval[t] # RMW_RET_OK
    /\ GidsOf(pre[t]) # {}
    /\ LocalNodes = pre[t]

\* C2: when publish_callback returns a not-OK code to update_node_graph or
\* destroy_node_graph, the node list of the local participant equals its
\* value before the call and a failure code is returned.
C2_NodeRollsBack ==
  \A t \in Callers :
    FailedReturn(t, {"update_node_graph", "destroy_node_graph"})
      => /\ retval[t] # RMW_RET_OK
         /\ LocalNodes = pre[t]

\* C3: when publish_callback returns a not-OK code to a destroy operation
\* (subscriber, publisher, client, service), the dissociations are rolled back:
\* the node list equals its value before the call.
C3_DestroyRollsBack ==
  \A t \in Callers :
    FailedReturn(t, {"destroy_subscriber_graph", "destroy_publisher_graph",
                     "destroy_client_graph", "destroy_service_graph"})
      => /\ retval[t] # RMW_RET_OK
         /\ LocalNodes = pre[t]

\* C4: update_client_graph and update_service_graph apply both associations
\* to the cache before the publish, the snapshot handed to publish_callback
\* holds both Gids, and after a failed publish neither Gid is associated.
Compound == {"update_client_graph", "update_service_graph"}
C4_CompoundBothOrNeither ==
  \A t \in Callers :
    /\ (pc[t] = "publish" /\ call[t].fn \in Compound)
         => /\ {call[t].gid1, call[t].gid2} \subseteq GidsOf(LocalNodes)
            /\ {call[t].gid1, call[t].gid2} \subseteq GidsOf(msg[t].node_entities_info_seq)
    /\ FailedReturn(t, Compound)
         => /\ retval[t] # RMW_RET_OK
            /\ {call[t].gid1, call[t].gid2} \cap GidsOf(LocalNodes) = {}
            /\ LocalNodes = pre[t]
\* a client or service creation returns after its publish failed
C4_Witness ==
  \E t \in Callers :
    /\ FailedReturn(t, Compound)
    /\ {call[t].gid1, call[t].gid2} \cap GidsOf(LocalNodes) = {}

\* C5: no thread that reads the graph cache while a Context operation runs
\* observes an association that the operation subsequently rolls back.
C5_NoRolledBackAssociationSeen ==
  [][print_graph_cache =>
       \A t \in Callers :
         pc[t] \in {"rollback", "rollback2"}
           => {call[t].gid1, call[t].gid2} \cap seen' = {}]_vars

\* C6: the sections (cache mutation, publish, rollback) of two lifecycle calls
\* never interleave, and the snapshot handed to publish_callback is the
\* local participant's node list as every earlier mutation left it.
C6_LifecycleSerialized ==
  /\ Cardinality({t \in Callers : pc[t] # "idle"}) <= 1
  /\ \A t \in Callers :
       /\ pc[t] # "idle" => node_update_mutex = t
       /\ pc[t] = "publish"
            => msg[t] = create_participant_info_message(LocalGid, LocalNodes)
\* a call is about to publish a snapshot that holds the mutation of an
\* earlier call as well as its own
C6_Witness ==
  \E t \in Callers :
    /\ pc[t] = "publish"
    /\ call[t].fn = "update_publisher_graph"
    /\ Len(pre[t]) >= 2
    /\ msg[t].node_entities_info_seq = LocalNodes

\* ============================================== GraphCache, called directly
\* SpecGraph: one thread after another calls the participant API of the
\* GraphCache of graph_cache.cpp; each call runs under GraphCache::mutex_ and
\* is one step.  gc_ret is overwritten by every call.
otherThanGraph == <<data_writers, data_readers, ctxVars, seen, lockVars, topicVars, qosVars>>

\* number of nodes, and of associated Gids, held over all participants
TotalNodes(p) ==
  Cardinality(UNION {{<<g, i>> : i \in 1..Len(p[g])} : g \in DOMAIN p})
TotalGids(p) ==
  Cardinality(UNION {UNION {{<<g, i, j>> :
                               j \in 1..(Len(p[g][i].reader_gid_seq)
                                           + Len(p[g][i].writer_gid_seq))}
                            : i \in 1..Len(p[g])}
                     : g \in DOMAIN p})

\* node lists carried by the gossip messages of the discovery thread
GossipLists ==
  {<<>>,
   <<NodeEntitiesInfo("a", "/")>>,
   <<[NodeEntitiesInfo("b", "/") EXCEPT !.writer_gid_seq = <<convert_gid_to_msg(MkGid(11))>>]>>,
   <<NodeEntitiesInfo("b", "/"),
     [NodeEntitiesInfo("a", "/") EXCEPT !.reader_gid_seq = <<convert_gid_to_msg(MkGid(12))>>]>>}
GossipMsgs ==
  {create_participant_info_message(gid, info) : gid \in ParticipantGids, info \in GossipLists}

add_participant_call(gid) ==
  /\ participants' = add_participant(participants, gid)
  /\ gc_ret' = GcRet("add_participant", gid, NoMsg, NoMsg, FALSE)
  /\ UNCHANGED otherThanGraph

update_participant_entities_call(m) ==
  /\ participants' = update_participant_entities(participants, m)
  /\ gc_ret' = GcRet("update_participant_entities", convert_msg_to_gid(m.gid), m, NoMsg, FALSE)
  /\ UNCHANGED otherThanGraph

remove_participant_call(gid) ==
  LET r == remove_participant(participants, gid)
  IN /\ participants' = r.participants
     /\ gc_ret' = GcRet("remove_participant", gid, NoMsg, NoMsg, r.ret)
     /\ UNCHANGED otherThanGraph

\* a call of one of the six mutators that return a snapshot message
SnapshotCall(op, gid, r) ==
  /\ participants' = r.participants
  /\ gc_ret' = GcRet(op, gid, NoMsg, r.msg, FALSE)
  /\ UNCHANGED otherThanGraph

add_node_call(gid, name, namespace_) ==
  /\ gid \in DOMAIN participants
  /\ TotalNodes(participants) < MaxNodes
  /\ SnapshotCall("add_node", gid, add_node(participants, gid, name, namespace_))

remove_node_call(gid, name, namespace_) ==
  /\ HasNode(participants, gid, name, namespace_)
  /\ SnapshotCall("remove_node", gid, remove_node(participants, gid, name, namespace_))

associate_writer_call(writer_gid, gid, name, namespace_) ==
  /\ HasNode(participants, gid, name, namespace_)
  /\ TotalGids(participants) < MaxGidSeq
  /\ SnapshotCall("associate_writer", gid,
                  associate_writer(participants, writer_gid, gid, name, namespace_))

dissociate_writer_call(writer_gid, gid, name, namespace_) ==
  /\ HasNode(participants, gid, name, namespace_)
  /\ SnapshotCall("dissociate_writer", gid,
                  dissociate_writer(participants, writer_gid, gid, name, namespace_))

associate_reader_call(reader_gid, gid, name, namespace_) ==
  /\ HasNode(participants, gid, name, namespace_)
  /\ TotalGids(participants) < MaxGidSeq
  /\ SnapshotCall("associate_reader", gid,
                  associate_reader(participants, reader_gid, gid, name, namespace_))

dissociate_reader_call(reader_gid, gid, name, namespace_) ==
  /\ HasNode(participants, gid, name, namespace_)
  /\ SnapshotCall("dissociate_reader", gid,
                  dissociate_reader(participants, reader_gid, gid, name, namespace_))

InitGraph ==
  /\ participants = EmptyMap
  /\ data_writers = EmptyMap
  /\ data_readers = EmptyMap
  /\ gc_ret = NoRet
  /\ seen = {}
  /\ CtxIdle /\ LockIdle /\ TopicIdle /\ QosIdle

NextGraph ==
  \/ \E gid \in ParticipantGids : add_participant_call(gid)
  \/ \E m \in GossipMsgs : update_participant_entities_call(m)
  \/ \E gid \in ParticipantGids : remove_participant_call(gid)
  \/ \E gid \in ParticipantGids, name \in NodeNames, namespace_ \in NodeNamespaces :
       add_node_call(gid, name, namespace_)
  \/ \E gid \in ParticipantGids, name \in NodeNames, namespace_ \in NodeNamespaces :
       remove_node_call(gid, name, namespace_)
  \/ \E e \in EntityGids, gid \in ParticipantGids, name \in NodeNames,
        namespace_ \in NodeNamespaces : associate_writer_call(e, gid, name, namespace_)
  \/ \E e \in EntityGids, gid \in ParticipantGids, name \in NodeNames,
        namespace_ \in NodeNamespaces : dissociate_writer_call(e, gid, name, namespace_)
  \/ \E e \in EntityGids, gid \in ParticipantGids, name \in NodeNames,
        namespace_ \in NodeNamespaces : associate_reader_call(e, gid, name, namespace_)
  \/ \E e \in EntityGids, gid \in ParticipantGids, name \in NodeNames,
        namespace_ \in NodeNamespaces : dissociate_reader_call(e, gid, name, namespace_)

SpecGraph == InitGraph /\ [][NextGraph]_vars

\* --------------------------- the gossip operations of the earlier revision
\* GraphCache::update_participant_entities of src/unnamed/part_007:111-121:
\* std::map::emplace inserts only when the key is absent
update_participant_entities_emplace(p, m) ==
  LET gid == convert_msg_to_gid(m.gid)
  IN IF gid \in DOMAIN p
     THEN [participants |-> p, ret |-> FALSE]
     ELSE [participants |-> MapPut(p, gid, m.node_entities_info_seq), ret |-> TRUE]

update_participant_entities_emplace_call(m) ==
  LET r == update_participant_entities_emplace(participants, m)
  IN /\ participants' = r.participants
     /\ gc_ret' = GcRet("update_participant_entities", convert_msg_to_gid(m.gid), m, NoMsg, r.ret)
     /\ UNCHANGED otherThanGraph

NextGossipEmplace ==
  \/ \E gid \in ParticipantGids : add_participant_call(gid)
  \/ \E m \in GossipMsgs : update_participant_entities_emplace_call(m)
  \/ \E gid \in ParticipantGids : remove_participant_call(gid)

SpecGossipEmplace == InitGraph /\ [][NextGossipEmplace]_vars

\* ------------------------------------------------------------------ claims
SnapshotOps == {"add_node", "remove_node", "associate_writer", "associate_reader",
                "dissociate_writer", "dissociate_reader"}

\* C8: after update_participant_entities(msg) the node list stored for msg's
\* participant Gid equals msg's node list exactly, whatever was stored before.
C8_UpdateReplaces ==
  gc_ret.op = "update_participant_entities" =>
    /\ gc_ret.gid \in DOMAIN participants
    /\ participants[gc_ret.gid] = gc_ret.arg.node_entities_info_seq

\* C9: the message returned by add_node, remove_node, associate_* and
\* dissociate_* carries the Gid of the given participant and a node list equal
\* to that participant's entire stored node list right after the mutation.
C9_SnapshotFresh ==
  gc_ret.op \in SnapshotOps =>
    /\ gc_ret.msg.gid = convert_gid_to_msg(gc_ret.gid)
    /\ gc_ret.msg.node_entities_info_seq = participants[gc_ret.gid]

\* an association was just made for a participant holding two nodes that both
\* list a Gid: the snapshot has to cover more than the modified node
C9_Witness ==
  /\ gc_ret.op \in {"associate_writer", "associate_reader"}
  /\ Len(gc_ret.msg.node_entities_info_seq) >= 2
  /\ \E i, j \in 1..Len(gc_ret.msg.node_entities_info_seq) :
       /\ i # j
       /\ GidsOf(<<gc_ret.msg.node_entities_info_seq[i]>>) # {}
       /\ GidsOf(<<gc_ret.msg.node_entities_info_seq[j]>>) # {}

\* ===================================== GraphCache::mutex_ and the three maps
\* SpecLock: two threads call the GraphCache of src/unnamed/part_007:41-127.
\* A call enters (taking mutex_ when its body declares a lock_guard), is then
\* inside its access to the maps, and returns (applying its effect and
\* releasing mutex_ when held).
otherThanLock == <<gc_ret, ctxVars, seen, topicVars, qosVars>>
EntityInfo(topic_name, type_name) == [topic_name |-> topic_name, topic_type |-> type_name]

Accessing(t) == gpc[t] = "access"
\* this call and the calls already inside their access now overlap
MarkRaced(t, c) ==
  [u \in Callers |->
     IF u = t THEN [c EXCEPT !.raced = \E v \in Callers \ {t} : Accessing(v)]
     ELSE IF Accessing(u) THEN [gcall[u] EXCEPT !.raced = TRUE]
     ELSE gcall[u]]

\* std::lock_guard<std::mutex> guard(mutex_); then the body
EnterLocked(t, c) ==
  /\ gpc[t] = "idle"
  /\ gmutex = "free"
  /\ gmutex' = t
  /\ gpc' = [gpc EXCEPT ![t] = "access"]
  /\ gcall' = MarkRaced(t, c)
  /\ UNCHANGED <<gcVars, otherThanLock>>
\* the body starts without taking mutex_
EnterUnlocked(t, c) ==
  /\ gpc[t] = "idle"
  /\ gpc' = [gpc EXCEPT ![t] = "access"]
  /\ gcall' = MarkRaced(t, c)
  /\ UNCHANGED <<gmutex, gcVars, otherThanLock>>

GraphCacheCall(op, gid, arg) == [op |-> op, gid |-> gid, arg |-> arg, raced |-> FALSE]

add_writer_enter(t, gid) == EnterLocked(t, GraphCacheCall("add_writer", gid, NoMsg))
get_writer_count_enter(t) == EnterLocked(t, GraphCacheCall("get_writer_count", NoGid, NoMsg))
remove_writer_enter(t, gid) == EnterUnlocked(t, GraphCacheCall("remove_writer", gid, NoMsg))
remove_reader_enter(t, gid) == EnterUnlocked(t, GraphCacheCall("remove_reader", gid, NoMsg))
update_participant_entities_enter(t, m) ==
  EnterUnlocked(t, GraphCacheCall("update_participant_entities", convert_msg_to_gid(m.gid), m))
remove_participant_enter(t, gid) ==
  EnterUnlocked(t, GraphCacheCall("remove_participant", gid, NoMsg))

\* data_writers_.emplace(gid, EntityInfo(topic_name, type_name))
add_writer(w, gid, topic_name, type_name) ==
  IF gid \in DOMAIN w THEN w ELSE MapPut(w, gid, EntityInfo(topic_name, type_name))

\* the maps after the call c has run alone
Effect(c) ==
  [w |-> IF c.op = "add_writer"
         THEN add_writer(data_writers, c.gid, "/chatter", "std_msgs/msg/String")
         ELSE IF c.op = "remove_writer" THEN MapErase(data_writers, c.gid)
         ELSE data_writers,
   r |-> IF c.op = "remove_reader" THEN MapErase(data_readers, c.gid) ELSE data_readers,
   p |-> IF c.op = "update_participant_entities"
         THEN update_participant_entities_emplace(participants, c.arg).participants
         ELSE IF c.op = "remove_participant"
         THEN remove_participant(participants, c.gid).participants
         ELSE participants]
\* two unsynchronised accesses to a std::map are a data race: the call's
\* update is applied or lost
Outcomes(c) ==
  IF c.raced
  THEN {Effect(c), [w |-> data_writers, r |-> data_readers, p |-> participants]}
  ELSE {Effect(c)}

GraphCacheReturn(t) ==
  /\ Accessing(t)
  /\ \E o \in Outcomes(gcall[t]) :
       /\ data_writers' = o.w
       /\ data_readers' = o.r
       /\ participants' = o.p
  /\ gmutex' = IF gmutex = t THEN "free" ELSE gmutex
  /\ gpc' = [gpc EXCEPT ![t] = "idle"]
  /\ gcall' = [gcall EXCEPT ![t] = NoGraphCall]
  /\ UNCHANGED otherThanLock

InitLock == InitGraph

NextLock ==
  \/ \E t \in Callers, gid \in EntityGids : add_writer_enter(t, gid)
  \/ \E t \in Callers : get_writer_count_enter(t)
  \/ \E t \in Callers, gid \in EntityGids : remove_writer_enter(t, gid)
  \/ \E t \in Callers, gid \in EntityGids : remove_reader_enter(t, gid)
  \/ \E t \in Callers, m \in GossipMsgs : update_participant_entities_enter(t, m)
  \/ \E t \in Callers, gid \in ParticipantGids : remove_participant_enter(t, gid)
  \/ \E t \in Callers : GraphCacheReturn(t)

SpecLock == InitLock /\ [][NextLock]_vars

\* C7: the three maps are never accessed by two GraphCache calls at once.
C7_MapsAccessedByOneCall ==
  \A t \in Callers, u \in Callers : (Accessing(t) /\ Accessing(u)) => t = u

\* ============================================================== TopicCache
\* SpecTopic: add_topic and remove_topic of src/unnamed/part_009 called in any
\* order with any arguments; each call holds TopicCache::mutex_ and is one step.
otherThanTopic == <<gcVars, gc_ret, ctxVars, seen, lockVars, qosVars>>
TopicNames == {"/chatter", "/rosout"}
TypeNames == {"String", "Log"}
\* std::make_pair(namespace_, node_name)
NamespaceNamePairs == NodeNamespaces \X NodeNames

\* number of type entries in topic_to_types_, and in participant_to_nodes_to_topics_
TotalTypes(tt) == Cardinality(UNION {{<<t, i>> : i \in 1..Len(tt[t])} : t \in DOMAIN tt})
TotalParticipantTypes(pn) ==
  Cardinality(UNION {UNION {UNION {{<<g, n, t, i>> : i \in 1..Len(pn[g][n][t])}
                                   : t \in DOMAIN pn[g][n]}
                            : n \in DOMAIN pn[g]}
                     : g \in DOMAIN pn})

\* initialize_topic, initialize_node_topic_map, initialize_participant_node_map
initialize_topic(topic_name, tt) ==
  IF topic_name \in DOMAIN tt THEN tt ELSE MapPut(tt, topic_name, <<>>)
initialize_node_topic_map(pair, map) ==
  IF pair \in DOMAIN map THEN map ELSE MapPut(map, pair, EmptyMap)
initialize_participant_node_map(gid, map) ==
  IF gid \in DOMAIN map THEN map ELSE MapPut(map, gid, EmptyMap)

\* an add_topic that records a type only once per topic
add_topic_once(tt, pn, gid, pair, topic_name, type_name) ==
  LET tt1 == initialize_topic(topic_name, tt)
      pn1 == initialize_participant_node_map(gid, pn)
      pn2 == [pn1 EXCEPT ![gid] = initialize_node_topic_map(pair, @)]
      pn3 == [pn2 EXCEPT ![gid][pair] = initialize_topic(topic_name, @)]
      Once(type_vec) == IF \E i \in 1..Len(type_vec) : type_vec[i] = type_name
                        THEN type_vec ELSE Append(type_vec, type_name)
  IN [topic_to_types |-> [tt1 EXCEPT ![topic_name] = Once(@)],
      participant_to_nodes_to_topics |-> [pn3 EXCEPT ![gid][pair][topic_name] = Once(@)],
      ret |-> TRUE]
add_topic(tt, pn, gid, pair, topic_name, type_name) ==
  LET tt1 == initialize_topic(topic_name, tt)
      pn1 == initialize_participant_node_map(gid, pn)
      pn2 == [pn1 EXCEPT ![gid] = initialize_node_topic_map(pair, @)]
      pn3 == [pn2 EXCEPT ![gid][pair] = initialize_topic(topic_name, @)]
  IN [topic_to_types |-> [tt1 EXCEPT ![topic_name] = Append(@, type_name)],
      participant_to_nodes_to_topics |->
        [pn3 EXCEPT ![gid][pair][topic_name] = Append(@, type_name)],
      ret |-> TRUE]

\* type_vec.erase(std::find(type_vec.begin(), type_vec.end(), type_name)):
\* the vectors the call can leave.  When type_name is absent the call is
\* erase(end()), undefined: the vector is left as it is or loses its last element.
erase_find(type_vec, type_name) ==
  LET it == FindIf([i \in 1..Len(type_vec) |-> type_vec[i] = type_name])
  IN IF it # 0 THEN {EraseAt(type_vec, it)}
     ELSE {type_vec, EraseAt(type_vec, Len(type_vec))}

\* a pruning that stops at the topic and leaves emptied node and participant
\* entries in place
prune_topic_only(pn, gid, pair, topic_name, type_vec) ==
  [pn EXCEPT ![gid][pair] = IF type_vec = <<>> THEN MapErase(@, topic_name)
                            ELSE MapPut(@, topic_name, type_vec)]
\* the pruning of emptied entries of participant_to_nodes_to_topics_
prune(pn, gid, pair, topic_name, type_vec) ==
  LET topics == IF type_vec = <<>> THEN MapErase(pn[gid][pair], topic_name)
                ELSE MapPut(pn[gid][pair], topic_name, type_vec)
      nodes == IF DOMAIN topics = {} THEN MapErase(pn[gid], pair)
               ELSE MapPut(pn[gid], pair, topics)
  IN IF DOMAIN nodes = {} THEN MapErase(pn, gid) ELSE MapPut(pn, gid, nodes)

\* the set of results remove_topic can have
remove_topic(tt, pn, gid, pair, topic_name, type_name) ==
  IF topic_name \notin DOMAIN tt
  THEN {[topic_to_types |-> tt, participant_to_nodes_to_topics |-> pn, ret |-> FALSE]}
  ELSE LET Global == {IF v = <<>> THEN MapErase(tt, topic_name) ELSE MapPut(tt, topic_name, v)
                        : v \in erase_find(tt[topic_name], type_name)}
           Found == /\ gid \in DOMAIN pn
                    /\ pair \in DOMAIN pn[gid]
                    /\ topic_name \in DOMAIN pn[gid][pair]
           PerParticipant ==
             IF Found
             THEN {prune(pn, gid, pair, topic_name, w)
                     : w \in erase_find(pn[gid][pair][topic_name], type_name)}
             ELSE {pn}
       IN {[topic_to_types |-> g, participant_to_nodes_to_topics |-> q, ret |-> TRUE]
             : g \in Global, q \in PerParticipant}

\* the tuple is recorded: type_name is held under topic_name for the node
\* `pair` of participant gid
Recorded(pn, gid, pair, topic_name, type_name) ==
  /\ gid \in DOMAIN pn
  /\ pair \in DOMAIN pn[gid]
  /\ topic_name \in DOMAIN pn[gid][pair]
  /\ \E i \in 1..Len(pn[gid][pair][topic_name]) : pn[gid][pair][topic_name][i] = type_name

TopicRet(op, r, gid, pair, topic_name, type_name) ==
  [op |-> op, ret |-> r.ret,
   recorded |-> Recorded(participant_to_nodes_to_topics, gid, pair, topic_name, type_name),
   changed |-> \/ r.topic_to_types # topic_to_types
               \/ r.participant_to_nodes_to_topics # participant_to_nodes_to_topics]

add_topic_call(gid, pair, topic_name, type_name) ==
  LET r == add_topic(topic_to_types, participant_to_nodes_to_topics,
                     gid, pair, topic_name, type_name)
  IN /\ TotalTypes(topic_to_types) < MaxRefs
     /\ TotalParticipantTypes(participant_to_nodes_to_topics) < MaxRefs
     /\ topic_to_types' = r.topic_to_types
     /\ participant_to_nodes_to_topics' = r.participant_to_nodes_to_topics
     /\ tc_ret' = TopicRet("add_topic", r, gid, pair, topic_name, type_name)
     /\ UNCHANGED otherThanTopic

remove_topic_call(gid, pair, topic_name, type_name) ==
  \E r \in remove_topic(topic_to_types, participant_to_nodes_to_topics,
                        gid, pair, topic_name, type_name) :
    /\ topic_to_types' = r.topic_to_types
    /\ participant_to_nodes_to_topics' = r.participant_to_nodes_to_topics
    /\ tc_ret' = TopicRet("remove_topic", r, gid, pair, topic_name, type_name)
    /\ UNCHANGED otherThanTopic

InitTopic == InitGraph

NextTopic ==
  \/ \E gid \in ParticipantGids, pair \in NamespaceNamePairs, topic_name \in TopicNames,
        type_name \in TypeNames : add_topic_call(gid, pair, topic_name, type_name)
  \/ \E gid \in ParticipantGids, pair \in NamespaceNamePairs, topic_name \in TopicNames,
        type_name \in TypeNames : remove_topic_call(gid, pair, topic_name, type_name)

SpecTopic == InitTopic /\ [][NextTopic]_vars

\* occurrences of type_name under topic_name in topic_to_types_
GlobalCount(topic_name, type_name) ==
  IF topic_name \in DOMAIN topic_to_types
  THEN Cardinality({i \in 1..Len(topic_to_types[topic_name]) :
                      topic_to_types[topic_name][i] = type_name})
  ELSE 0
\* occurrences of the pair over all (participant, node) entries
ParticipantCount(topic_name, type_name) ==
  LET pn == participant_to_nodes_to_topics
  IN Cardinality(UNION {UNION {{<<g, n, i>> : i \in {j \in 1..Len(pn[g][n][topic_name]) :
                                                      pn[g][n][topic_name][j] = type_name}}
                               : n \in {x \in DOMAIN pn[g] : topic_name \in DOMAIN pn[g][x]}}
                        : g \in DOMAIN pn})

\* C10: for every (topic, type) pair the count in the global topic-to-types
\* map equals the count over all (participant, node) entries.
C10_ReferenceCounts ==
  \A topic_name \in TopicNames, type_name \in TypeNames :
    GlobalCount(topic_name, type_name) = ParticipantCount(topic_name, type_name)

\* C11: remove_topic called for a tuple that is not recorded returns a failure
\* indication and changes neither map.
C11_UnrecordedRemovalFails ==
  (tc_ret.op = "remove_topic" /\ ~tc_ret.recorded)
    => (~tc_ret.ret /\ ~tc_ret.changed)

\* ===================================================================== QoS
\* The functions of qos.cpp (latest revision: src/unnamed/part_011) are pure.
\* SpecQos draws the arguments of one call in its initial state and applies
\* the function in one step.
otherThanQos == <<gcVars, gc_ret, ctxVars, seen, lockVars, topicVars>>

RMW_RET_INVALID_ARGUMENT == 11

\* rmw_time_t and the comparisons of part_011:34-55
Time(sec, nsec) == [sec |-> sec, nsec |-> nsec]
TimeEq(t1, t2) == t1.sec = t2.sec /\ t1.nsec = t2.nsec
\* a comparison of the seconds alone
TimeLess_sec_only(t1, t2) == t1.sec < t2.sec
TimeLess(t1, t2) ==
  IF t1.sec < t2.sec THEN TRUE
  ELSE IF t1.sec = t2.sec /\ t1.nsec < t2.nsec THEN TRUE
  ELSE FALSE

\* The seconds of RMW_DURATION_INFINITE and of the BEST_AVAILABLE sentinels are
\* 9223372036, beyond the integers of the model checker; the model keeps
\* their order with the largest integer it has.  Seconds are only compared.
INFINITE_SEC == 2147483647
RMW_DURATION_INFINITE == Time(INFINITE_SEC, 854775807)
deadline_default == Time(0, 0)
deadline_best_available == Time(INFINITE_SEC, 854775806)
liveliness_lease_duration_default == Time(0, 0)
liveliness_lease_duration_best_available == Time(INFINITE_SEC, 854775806)

\* rmw_qos_profile_t: the policies that qos.cpp reads, and history, depth and
\* lifespan with the values of rmw_qos_profile_best_available
QosProfile(reliability, durability, liveliness, deadline, lease) ==
  [history |-> "KEEP_LAST", depth |-> 10, reliability |-> reliability,
   durability |-> durability, deadline |-> deadline, lifespan |-> Time(0, 0),
   liveliness |-> liveliness, liveliness_lease_duration |-> lease]

\* ------------------------------------------------------- character strings
\* A C string is a sequence of pieces; the piece [id, len] stands for the
\* first len characters of the string literal (or policy name) id.
Literal(id, len) == <<[id |-> id, len |-> len]>>

RECURSIVE strlen(_)
strlen(str) == IF str = <<>> THEN 0 ELSE Head(str).len + strlen(Tail(str))

\* the first n characters of str
RECURSIVE Prefix(_, _)
Prefix(str, n) ==
  IF n <= 0 \/ str = <<>> THEN <<>>
  ELSE IF Head(str).len <= n THEN <<Head(str)>> \o Prefix(Tail(str), n - Head(str).len)
  ELSE <<[Head(str) EXCEPT !.len = n]>>

\* A caller's buffer: str is the C string it holds (the characters before the
\* first null), high the largest count of leading bytes the callee has written.
Buffer(str, high) == [str |-> str, high |-> high]
\* what the caller's buffer holds before the call
\* char reason[10] = "untouched" (test_qos.cpp:726), of which no byte was written
untouched == Buffer(Literal("untouched", 9), 0)
Max(a, b) == IF a < b THEN b ELSE a
Min(a, b) == IF a < b THEN a ELSE b

\* the whole message written, whatever room is left
append_to_buffer_unbounded(buffer_null, buffer, buffer_size, message) ==
  IF buffer_null \/ buffer_size = 0 THEN buffer
  ELSE Buffer(buffer.str \o message, strlen(buffer.str \o message) + 1)

\* the message written at the start of the buffer
append_to_buffer_overwrite(buffer_null, buffer, buffer_size, message) ==
  IF buffer_null \/ buffer_size = 0 THEN buffer
  ELSE Buffer(Prefix(message, buffer_size - 1),
              Max(buffer.high, strlen(Prefix(message, buffer_size - 1)) + 1))

\* part_011:66-85.  Nothing is written without a buffer; otherwise vsnprintf
\* writes at most write_size - 1 characters of the message after the string
\* already held, and a terminating null.  (vsnprintf does not fail for these
\* formats, so RMW_RET_ERROR is not returned.)
append_to_buffer(buffer_null, buffer, buffer_size, message) ==
  IF buffer_null \/ buffer_size = 0 THEN buffer
  ELSE LET offset == Min(strlen(buffer.str), buffer_size)
           write_size == buffer_size - offset
           written == Prefix(message, write_size - 1)
       IN IF write_size = 0 THEN buffer
          ELSE Buffer(buffer.str \o written,
                      Max(buffer.high, offset + strlen(written) + 1))

\* appends, in order, the message of every rule of the sequence that holds
RECURSIVE append_each(_, _, _, _)
append_each(buffer_null, buffer, buffer_size, rules) ==
  IF rules = <<>> THEN buffer
  ELSE append_each(buffer_null,
                   IF Head(rules).holds
                   THEN append_to_buffer(buffer_null, buffer, buffer_size, Head(rules).message)
                   ELSE buffer,
                   buffer_size, Tail(rules))

Rule(holds, message) == [holds |-> holds, message |-> message]

\* part_011:113-215, the seven tests that set RMW_QOS_COMPATIBILITY_ERROR
ErrorRules(publisher_qos, subscription_qos) ==
  LET pub_deadline == publisher_qos.deadline
      sub_deadline == subscription_qos.deadline
      pub_lease == publisher_qos.liveliness_lease_duration
      sub_lease == subscription_qos.liveliness_lease_duration
  IN <<Rule(/\ publisher_qos.reliability = "BEST_EFFORT"
            /\ subscription_qos.reliability = "RELIABLE",
            Literal("ERROR: Best effort publisher and reliable subscription;", 55)),
       Rule(/\ publisher_qos.durability = "VOLATILE"
            /\ subscription_qos.durability = "TRANSIENT_LOCAL",
            Literal("ERROR: Volatile publisher and transient local subscription;", 59)),
       Rule(/\ TimeEq(pub_deadline, deadline_default)
            /\ ~TimeEq(sub_deadline, deadline_default),
            Literal("ERROR: Subscription has a deadline, but publisher does not;", 59)),
       Rule(/\ ~TimeEq(pub_deadline, deadline_default)
            /\ ~TimeEq(sub_deadline, deadline_default)
            /\ TimeLess(sub_deadline, pub_deadline),
            Literal("ERROR: Subscription deadline is less than publisher deadline;", 61)),
       Rule(/\ publisher_qos.liveliness = "AUTOMATIC"
            /\ subscription_qos.liveliness = "MANUAL_BY_TOPIC",
            Literal("ERROR: Publisher's liveliness is automatic and subscription's is manual by topic;", 81)),
       Rule(/\ TimeEq(pub_lease, liveliness_lease_duration_default)
            /\ ~TimeEq(sub_lease, liveliness_lease_duration_default),
            Literal("ERROR: Subscription has a liveliness lease duration, but publisher does not;", 76)),
       Rule(/\ ~TimeEq(pub_lease, liveliness_lease_duration_default)
            /\ ~TimeEq(sub_lease, liveliness_lease_duration_default)
            /\ TimeLess(sub_lease, pub_lease),
            Literal("ERROR: Subscription liveliness lease duration is less than publisher;", 69))>>

\* rmw_qos_*_policy_to_str, with "unknown" for a null result (part_011:239-263)
policy_to_str(policy) ==
  CASE policy = "SYSTEM_DEFAULT" -> Literal("system_default", 14)
    [] policy = "RELIABLE" -> Literal("reliable", 8)
    [] policy = "BEST_EFFORT" -> Literal("best_effort", 11)
    [] policy = "VOLATILE" -> Literal("volatile", 8)
    [] policy = "TRANSIENT_LOCAL" -> Literal("transient_local", 15)
    [] policy = "AUTOMATIC" -> Literal("automatic", 9)
    [] policy = "MANUAL_BY_TOPIC" -> Literal("manual_by_topic", 15)
    [] policy = "BEST_AVAILABLE" -> Literal("best_available", 14)
    [] OTHER -> Literal("unknown", 7)

\* SYSTEM_DEFAULT alone taken as not known
policy_unknown_system_default_only(policy) == policy = "SYSTEM_DEFAULT"
\* part_011:220-237
policy_unknown(policy) == policy = "SYSTEM_DEFAULT" \/ policy = "UNKNOWN"

\* part_011:265-386, the nine tests that set RMW_QOS_COMPATIBILITY_WARNING; of
\* the three tests of one policy only the first that holds is taken
WarningRules(publisher_qos, subscription_qos) ==
  LET pub_reliability_unknown == policy_unknown(publisher_qos.reliability)
      sub_reliability_unknown == policy_unknown(subscription_qos.reliability)
      pub_durability_unknown == policy_unknown(publisher_qos.durability)
      sub_durability_unknown == policy_unknown(subscription_qos.durability)
      pub_liveliness_unknown == policy_unknown(publisher_qos.liveliness)
      sub_liveliness_unknown == policy_unknown(subscription_qos.liveliness)
      pub_reliability_str == policy_to_str(publisher_qos.reliability)
      sub_reliability_str == policy_to_str(subscription_qos.reliability)
      pub_durability_str == policy_to_str(publisher_qos.durability)
      sub_durability_str == policy_to_str(subscription_qos.durability)
      pub_liveliness_str == policy_to_str(publisher_qos.liveliness)
      sub_liveliness_str == policy_to_str(subscription_qos.liveliness)
      r1 == pub_reliability_unknown /\ sub_reliability_unknown
      r2 == pub_reliability_unknown /\ subscription_qos.reliability = "RELIABLE"
      r3 == publisher_qos.reliability = "BEST_EFFORT" /\ sub_reliability_unknown
      d1 == pub_durability_unknown /\ sub_durability_unknown
      d2 == pub_durability_unknown /\ subscription_qos.durability = "TRANSIENT_LOCAL"
      d3 == publisher_qos.durability = "VOLATILE" /\ sub_durability_unknown
      l1 == pub_liveliness_unknown /\ sub_liveliness_unknown
      l2 == pub_liveliness_unknown /\ subscription_qos.liveliness = "MANUAL_BY_TOPIC"
      l3 == publisher_qos.liveliness = "AUTOMATIC" /\ sub_liveliness_unknown
  IN <<Rule(r1, Literal("WARNING: Publisher reliability is ", 34) \o pub_reliability_str
                  \o Literal(" and subscription reliability is ", 33) \o sub_reliability_str
                  \o Literal(";", 1)),
       Rule(~r1 /\ r2, Literal("WARNING: Reliable subscription, but publisher is ", 49)
                  \o pub_reliability_str \o Literal(";", 1)),
       Rule(~r1 /\ ~r2 /\ r3, Literal("WARNING: Best effort publisher, but subscription is ", 52)
                  \o sub_reliability_str \o Literal(";", 1)),
       Rule(d1, Literal("WARNING: Publisher durabilty is ", 32) \o pub_durability_str
                  \o Literal(" and subscription durability is ", 32) \o sub_durability_str
                  \o Literal(";", 1)),
       Rule(~d1 /\ d2, Literal("WARNING: Transient local subscription, but publisher is ", 56)
                  \o pub_durability_str \o Literal(";", 1)),
       Rule(~d1 /\ ~d2 /\ d3, Literal("WARNING: Volatile publisher, but subscription is ", 49)
                  \o sub_durability_str \o Literal(";", 1)),
       Rule(l1, Literal("WARNING: Publisher liveliness is ", 33) \o pub_liveliness_str
                  \o Literal(" and subscription liveliness is ", 32) \o sub_liveliness_str
                  \o Literal(";", 1)),
       Rule(~l1 /\ l2,
            Literal("WARNING: Subscription's liveliness is manual by topic, but publisher's is ", 74)
                  \o pub_liveliness_str \o Literal(";", 1)),
       Rule(~l1 /\ ~l2 /\ l3,
            Literal("WARNING: Publisher's liveliness is automatic, but subscription's is ", 68)
                  \o sub_liveliness_str \o Literal(";", 1))>>

AnyHolds(rules) == \E i \in DOMAIN rules : rules[i].holds

CompatRet(ret, compatibility, reason) ==
  [fn |-> "check_compatible", ret |-> ret, compatibility |-> compatibility, reason |-> reason]

\* the WARNING tests made whatever the ERROR tests found
qos_profile_check_compatible_warnings_always(publisher_qos, subscription_qos, compatibility_null, reason_null, reason, reason_size) ==
  IF compatibility_null THEN CompatRet(RMW_RET_INVALID_ARGUMENT, "unset", reason)
  ELSE IF reason_null /\ reason_size # 0 THEN CompatRet(RMW_RET_INVALID_ARGUMENT, "unset", reason)
  ELSE
    LET errors == ErrorRules(publisher_qos, subscription_qos)
        warnings == WarningRules(publisher_qos, subscription_qos)
        initialized == IF ~reason_null /\ reason_size # 0
                       THEN Buffer(<<>>, Max(reason.high, 1)) ELSE reason
    IN CompatRet(RMW_RET_OK,
                 IF AnyHolds(warnings) THEN "WARNING"
                 ELSE IF AnyHolds(errors) THEN "ERROR" ELSE "OK",
                 append_each(reason_null, initialized, reason_size, errors \o warnings))

\* part_011:87-390.  compatibility_null and reason_null say which pointers are
\* null; reason is the caller's buffer as it is before the call; the result
\* carries the return code, *compatibility ("unset" when it was not assigned)
\* and the buffer after the call.
qos_profile_check_compatible(publisher_qos, subscription_qos, compatibility_null, reason_null, reason, reason_size) ==
  IF compatibility_null THEN CompatRet(RMW_RET_INVALID_ARGUMENT, "unset", reason)
  ELSE IF reason_null /\ reason_size # 0 THEN CompatRet(RMW_RET_INVALID_ARGUMENT, "unset", reason)
  ELSE
    LET errors == ErrorRules(publisher_qos, subscription_qos)
        warnings == WarningRules(publisher_qos, subscription_qos)
        initialized == IF ~reason_null /\ reason_size # 0
                       THEN Buffer(<<>>, Max(reason.high, 1)) ELSE reason
        after_errors == append_each(reason_null, initialized, reason_size, errors)
    IN IF AnyHolds(errors)
       THEN CompatRet(RMW_RET_OK, "ERROR", after_errors)
       ELSE CompatRet(RMW_RET_OK,
                      IF AnyHolds(warnings) THEN "WARNING" ELSE "OK",
                      append_each(reason_null, after_errors, reason_size, warnings))

\* ------------------------------------------------------------------ SpecQos
\* The arguments of one call of qos_profile_check_compatible are drawn in the
\* initial state; the call is the only step.
ReliabilityPolicies == {"BEST_EFFORT", "RELIABLE", "SYSTEM_DEFAULT", "UNKNOWN"}
DurabilityPolicies == {"VOLATILE", "TRANSIENT_LOCAL", "SYSTEM_DEFAULT", "UNKNOWN"}
LivelinessPolicies == {"AUTOMATIC", "MANUAL_BY_TOPIC", "SYSTEM_DEFAULT", "UNKNOWN"}
ConcreteReliability == {"BEST_EFFORT", "RELIABLE"}
ConcreteDurability == {"VOLATILE", "TRANSIENT_LOCAL"}
ConcreteLiveliness == {"AUTOMATIC", "MANUAL_BY_TOPIC"}

\* the durations of test_qos.cpp:183-246: none, and three that differ in
\* seconds and in nanoseconds
Durations == {Time(0, 0), Time(1, 0), Time(1, 1), Time(2, 0)}

Profiles(reliabilities, durabilities, livelinesses, deadlines, leases) ==
  [history : {"KEEP_LAST"}, depth : {10}, reliability : reliabilities,
   durability : durabilities, deadline : deadlines, lifespan : {Time(0, 0)},
   liveliness : livelinesses, liveliness_lease_duration : leases]

\* every policy value, without durations
PolicyProfiles ==
  Profiles(ReliabilityPolicies, DurabilityPolicies, LivelinessPolicies,
           {deadline_default}, {liveliness_lease_duration_default})
\* concrete policy values, every duration
ConcreteProfiles ==
  Profiles(ConcreteReliability, ConcreteDurability, ConcreteLiveliness, Durations, Durations)
\* subscriptions asking the most, and knowing nothing
StrictOrUnknownProfiles ==
  {QosProfile("RELIABLE", "TRANSIENT_LOCAL", "MANUAL_BY_TOPIC", deadline_default,
              liveliness_lease_duration_default),
   QosProfile("SYSTEM_DEFAULT", "SYSTEM_DEFAULT", "SYSTEM_DEFAULT", deadline_default,
              liveliness_lease_duration_default),
   QosProfile("UNKNOWN", "UNKNOWN", "UNKNOWN", deadline_default,
              liveliness_lease_duration_default)}

\* test_qos.cpp:48, a buffer that holds every reason
LargeReasonSize == 2048
ReasonSizes ==
  (0..MaxSmallSize) \cup {n * MaxSmallSize : n \in 1..MaxSteps} \cup {LargeReasonSize}

\* reason is the content of the caller's buffer before the call
CompatCalls(publishers, subscriptions, nulls, reasons, reason_sizes) ==
  [fn : {"check_compatible"}, publisher_qos : publishers, subscription_qos : subscriptions,
   compatibility_null : nulls, reason_null : nulls, reason : reasons,
   reason_size : reason_sizes]

InitQos ==
  /\ qos_call \in
       CompatCalls(Profiles(ReliabilityPolicies, DurabilityPolicies, LivelinessPolicies,
                            Durations, {liveliness_lease_duration_default}),
                   Profiles(ReliabilityPolicies, DurabilityPolicies, LivelinessPolicies,
                            {deadline_default, Time(1, 0)}, {liveliness_lease_duration_default}),
                   {FALSE}, {untouched}, {LargeReasonSize})
       \cup CompatCalls(ConcreteProfiles, ConcreteProfiles, {FALSE}, {untouched},
                        {LargeReasonSize})
       \cup CompatCalls(PolicyProfiles, StrictOrUnknownProfiles, BOOLEAN, {untouched},
                        ReasonSizes)
  /\ qos_ret = [fn |-> "none"]
  /\ participants = EmptyMap
  /\ seen = {}
  /\ CtxIdle /\ GraphIdle /\ LockIdle /\ TopicIdle

check_compatible_call ==
  /\ qos_call.fn = "check_compatible"
  /\ qos_ret.fn = "none"
  /\ qos_ret' = qos_profile_check_compatible(
                  qos_call.publisher_qos, qos_call.subscription_qos,
                  qos_call.compatibility_null, qos_call.reason_null,
                  qos_call.reason, qos_call.reason_size)
  /\ UNCHANGED <<qos_call, otherThanQos>>

NextQos == check_compatible_call

SpecQos == InitQos /\ [][NextQos]_vars

\* the five ERROR-class rules as the compatibility table states them, in the
\* order of the table: reliability, durability, deadline, liveliness, lease
Greater(t1, t2) == t1.sec > t2.sec \/ (t1.sec = t2.sec /\ t1.nsec > t2.nsec)
ErrorClassRules(pub, sub) ==
  <<pub.reliability = "BEST_EFFORT" /\ sub.reliability = "RELIABLE",
    pub.durability = "VOLATILE" /\ sub.durability = "TRANSIENT_LOCAL",
    /\ sub.deadline # Time(0, 0)
    /\ (pub.deadline = Time(0, 0) \/ Greater(pub.deadline, sub.deadline)),
    pub.liveliness = "AUTOMATIC" /\ sub.liveliness = "MANUAL_BY_TOPIC",
    /\ sub.liveliness_lease_duration # Time(0, 0)
    /\ (pub.liveliness_lease_duration = Time(0, 0)
        \/ Greater(pub.liveliness_lease_duration, sub.liveliness_lease_duration))>>
ViolatedRules(pub, sub) == {i \in 1..5 : ErrorClassRules(pub, sub)[i]}

\* a call of qos_profile_check_compatible has returned RMW_RET_OK
Checked == qos_ret.fn = "check_compatible" /\ qos_ret.ret = RMW_RET_OK

\* C12: the verdict of qos_profile_check_compatible is ERROR if and only if at
\* least one of the five ERROR-class rules holds for the pair.
C12_ErrorIffRule ==
  Checked =>
    (qos_ret.compatibility = "ERROR"
       <=> ViolatedRules(qos_call.publisher_qos, qos_call.subscription_qos) # {})

\* the verdict is ERROR for a subscription deadline that is shorter than the
\* publisher's by a nanosecond only, and for no other rule
C12_Witness ==
  /\ Checked
  /\ qos_ret.compatibility = "ERROR"
  /\ qos_call.publisher_qos.deadline = Time(1, 1)
  /\ qos_call.subscription_qos.deadline = Time(1, 0)
  /\ ViolatedRules(qos_call.publisher_qos, qos_call.subscription_qos) = {3}

\* SYSTEM_DEFAULT or UNKNOWN
NotKnown(policy) == policy \in {"SYSTEM_DEFAULT", "UNKNOWN"}
SomeNotKnown(pub, sub) ==
  \E side \in {pub, sub} :
    NotKnown(side.reliability) \/ NotKnown(side.durability) \/ NotKnown(side.liveliness)
\* the values of one policy do not decide whether the endpoints match: neither
\* is known, or the publisher's is not and the subscription asks for the strict
\* value, or the subscription's is not and the publisher offers the weak value
Undetermined(pub_policy, sub_policy, weak, strict) ==
  \/ NotKnown(pub_policy) /\ NotKnown(sub_policy)
  \/ NotKnown(pub_policy) /\ sub_policy = strict
  \/ pub_policy = weak /\ NotKnown(sub_policy)
SomeUndetermined(pub, sub) ==
  \/ Undetermined(pub.reliability, sub.reliability, "BEST_EFFORT", "RELIABLE")
  \/ Undetermined(pub.durability, sub.durability, "VOLATILE", "TRANSIENT_LOCAL")
  \/ Undetermined(pub.liveliness, sub.liveliness, "AUTOMATIC", "MANUAL_BY_TOPIC")

\* C13, as stated: a pair with SYSTEM_DEFAULT or UNKNOWN in reliability,
\* durability or liveliness on either side, for which no ERROR rule holds, gets
\* the verdict WARNING and a non-empty reason in a buffer of non-zero size.
C13_NotKnownIsWarning ==
  (/\ Checked
   /\ ~qos_call.reason_null /\ qos_call.reason_size # 0
   /\ SomeNotKnown(qos_call.publisher_qos, qos_call.subscription_qos)
   /\ ViolatedRules(qos_call.publisher_qos, qos_call.subscription_qos) = {})
    => (qos_ret.compatibility = "WARNING" /\ qos_ret.reason.str # <<>>)

\* C13, amended: when no ERROR rule holds, the verdict is WARNING if and only
\* if the values of reliability, durability or liveliness do not decide whether
\* the endpoints match, and OK otherwise; with a WARNING the reason is not
\* empty in a buffer of two bytes or more.
C13_WarningIffUndetermined ==
  (/\ Checked
   /\ ViolatedRules(qos_call.publisher_qos, qos_call.subscription_qos) = {})
    => /\ qos_ret.compatibility =
            IF SomeUndetermined(qos_call.publisher_qos, qos_call.subscription_qos)
            THEN "WARNING" ELSE "OK"
       /\ (/\ qos_ret.compatibility = "WARNING"
           /\ ~qos_call.reason_null /\ qos_call.reason_size >= 2)
            => qos_ret.reason.str # <<>>
       /\ qos_ret.compatibility = "OK" => qos_ret.reason.str \in {<<>>, untouched.str}

\* an UNKNOWN publisher reliability with a RELIABLE subscription gave WARNING
\* and a reason
C13_Witness ==
  /\ Checked
  /\ qos_call.publisher_qos.reliability = "UNKNOWN"
  /\ qos_call.subscription_qos.reliability = "RELIABLE"
  /\ qos_ret.compatibility = "WARNING"
  /\ qos_ret.reason.str # <<>>

\* ----------------------------------------------------------- SpecQosEarlier
\* qos_profile_check_compatible as src/rmw_dds_common/src/qos.cpp has it.
\* qos.cpp:225-310, the six tests that set RMW_QOS_COMPATIBILITY_WARNING
WarningRules_earlier(publisher_qos, subscription_qos) ==
  LET r1 == /\ publisher_qos.reliability = "SYSTEM_DEFAULT"
            /\ subscription_qos.reliability = "RELIABLE"
      d1 == /\ publisher_qos.durability = "SYSTEM_DEFAULT"
            /\ subscription_qos.durability = "TRANSIENT_LOCAL"
      l1 == /\ publisher_qos.liveliness = "AUTOMATIC"
            /\ subscription_qos.liveliness = "SYSTEM_DEFAULT"
  IN <<Rule(r1, Literal("WARNING: Reliable subscription, but publisher is system default;", 64)),
       Rule(/\ ~r1
            /\ publisher_qos.reliability = "BEST_EFFORT"
            /\ subscription_qos.reliability = "SYSTEM_DEFAULT",
            Literal("WARNING: Best effort publisher, but subscription is system default;", 67)),
       Rule(d1, Literal("WARNING: Transient local subscription, but publisher is system default;", 71)),
       Rule(/\ ~d1
            /\ publisher_qos.durability = "VOLATILE"
            /\ subscription_qos.durability = "SYSTEM_DEFAULT",
            Literal("WARNING: Volatile publisher, but subscription is system default;", 64)),
       Rule(l1, Literal("WARNING: Publisher's liveliness is automatic, but subscription's is system default;", 83)),
       Rule(/\ ~l1
            /\ publisher_qos.liveliness = "SYSTEM_DEFAULT"
            /\ subscription_qos.liveliness = "MANUAL_BY_TOPIC",
            Literal("WARNING: Subscription's liveliness is manual by topic, but publisher's is system default;", 89))>>

\* qos.cpp:90-119
AnyUnknown(publisher_qos, subscription_qos) ==
  \E qos \in {publisher_qos, subscription_qos} :
    qos.reliability = "UNKNOWN" \/ qos.durability = "UNKNOWN" \/ qos.liveliness = "UNKNOWN"

\* qos.cpp:68-314.  The buffer is not emptied before the first message is
\* appended to what it holds.
qos_profile_check_compatible_earlier(publisher_qos, subscription_qos, compatibility_null, reason_null, reason, reason_size) ==
  IF compatibility_null THEN CompatRet(RMW_RET_INVALID_ARGUMENT, "unset", reason)
  ELSE IF reason_null /\ reason_size # 0 THEN CompatRet(RMW_RET_INVALID_ARGUMENT, "unset", reason)
  ELSE IF AnyUnknown(publisher_qos, subscription_qos)
  THEN CompatRet(RMW_RET_INVALID_ARGUMENT, "ERROR", reason)
  ELSE
    LET errors == ErrorRules(publisher_qos, subscription_qos)
        warnings == WarningRules_earlier(publisher_qos, subscription_qos)
        after_errors == append_each(reason_null, reason, reason_size, errors)
    IN IF AnyHolds(errors)
       THEN CompatRet(RMW_RET_OK, "ERROR", after_errors)
       ELSE CompatRet(RMW_RET_OK,
                      IF AnyHolds(warnings) THEN "WARNING" ELSE "OK",
                      append_each(reason_null, after_errors, reason_size, warnings))

\* the caller's buffer starts with a null byte, or holds a string
InitQosEarlier ==
  /\ qos_call \in CompatCalls(PolicyProfiles, PolicyProfiles, BOOLEAN,
                              {Buffer(<<>>, 0), untouched},
                              {0, MaxSmallSize, LargeReasonSize})
  /\ qos_ret = [fn |-> "none"]
  /\ participants = EmptyMap
  /\ seen = {}
  /\ CtxIdle /\ GraphIdle /\ LockIdle /\ TopicIdle

check_compatible_earlier_call ==
  /\ qos_call.fn = "check_compatible"
  /\ qos_ret.fn = "none"
  /\ qos_ret' = qos_profile_check_compatible_earlier(
                  qos_call.publisher_qos, qos_call.subscription_qos,
                  qos_call.compatibility_null, qos_call.reason_null,
                  qos_call.reason, qos_call.reason_size)
  /\ UNCHANGED <<qos_call, otherThanQos>>

NextQosEarlier == check_compatible_earlier_call

SpecQosEarlier == InitQosEarlier /\ [][NextQosEarlier]_vars

\* the arguments of the call are none of the invalid ones
ValidArguments ==
  /\ ~qos_call.compatibility_null
  /\ ~(qos_call.reason_null /\ qos_call.reason_size # 0)

\* C14: whatever the policy values, UNKNOWN included, the call returns
\* RMW_RET_OK when the compatibility pointer is not null and the reason buffer
\* and its size are consistent; with an UNKNOWN value the verdict is ERROR only
\* if an ERROR rule holds.
C14_NoErrorForPolicyValues ==
  (qos_ret.fn = "check_compatible" /\ ValidArguments)
    => /\ qos_ret.ret = RMW_RET_OK
       /\ qos_ret.compatibility = "ERROR"
            => ViolatedRules(qos_call.publisher_qos, qos_call.subscription_qos) # {}

\* The entries of a reason.  An entry of class ERROR is one of the seven
\* messages of part_011:113-215, numbered by the rule that raises it; an entry
\* of class WARNING begins with one of the nine openings of part_011:265-386.
ErrorEntryRule ==
  "ERROR: Best effort publisher and reliable subscription;" :> 1
  @@ "ERROR: Volatile publisher and transient local subscription;" :> 2
  @@ "ERROR: Subscription has a deadline, but publisher does not;" :> 3
  @@ "ERROR: Subscription deadline is less than publisher deadline;" :> 3
  @@ "ERROR: Publisher's liveliness is automatic and subscription's is manual by topic;" :> 4
  @@ "ERROR: Subscription has a liveliness lease duration, but publisher does not;" :> 5
  @@ "ERROR: Subscription liveliness lease duration is less than publisher;" :> 5
WarningOpenings ==
  {"WARNING: Publisher reliability is ",
   "WARNING: Reliable subscription, but publisher is ",
   "WARNING: Best effort publisher, but subscription is ",
   "WARNING: Publisher durabilty is ",
   "WARNING: Transient local subscription, but publisher is ",
   "WARNING: Volatile publisher, but subscription is ",
   "WARNING: Publisher liveliness is ",
   "WARNING: Subscription's liveliness is manual by topic, but publisher's is ",
   "WARNING: Publisher's liveliness is automatic, but subscription's is "}
ErrorEntries(str) == {i \in DOMAIN str : str[i].id \in DOMAIN ErrorEntryRule}
WarningEntries(str) == {i \in DOMAIN str : str[i].id \in WarningOpenings}

\* C15: the WARNING rules are evaluated if and only if no ERROR was raised.  A
\* reason given with the verdict ERROR holds ERROR entries only, a reason with
\* a WARNING entry comes with the verdict WARNING, an ERROR entry comes with
\* the verdict ERROR, and a pair for which a WARNING test holds and no ERROR
\* rule does has a WARNING entry in a buffer that holds every reason.
C15_WarningsOnlyWithoutError ==
  Checked =>
    LET str == qos_ret.reason.str
        pub == qos_call.publisher_qos
        sub == qos_call.subscription_qos
        written == ~qos_call.reason_null /\ qos_call.reason_size # 0
    IN /\ (qos_ret.compatibility = "ERROR" /\ written)
            => (WarningEntries(str) = {} /\ ErrorEntries(str) = DOMAIN str)
       /\ (written /\ WarningEntries(str) # {}) => qos_ret.compatibility = "WARNING"
       /\ (written /\ ErrorEntries(str) # {}) => qos_ret.compatibility = "ERROR"
       /\ ViolatedRules(pub, sub) # {} => qos_ret.compatibility = "ERROR"
       /\ (/\ ViolatedRules(pub, sub) = {} /\ SomeUndetermined(pub, sub)
           /\ ~qos_call.reason_null /\ qos_call.reason_size = LargeReasonSize)
            => WarningEntries(str) # {}

\* an ERROR rule and a WARNING test held for one pair, and the reason has the
\* ERROR entry alone
C15_Witness ==
  /\ Checked
  /\ ViolatedRules(qos_call.publisher_qos, qos_call.subscription_qos) # {}
  /\ SomeUndetermined(qos_call.publisher_qos, qos_call.subscription_qos)
  /\ qos_ret.compatibility = "ERROR"
  /\ ErrorEntries(qos_ret.reason.str) # {}
  /\ WarningEntries(qos_ret.reason.str) = {}

\* the rules of the ERROR entries of a reason, in the order of the entries
EntryRules(str) == [i \in DOMAIN str |-> ErrorEntryRule[str[i].id]]

\* C16: when k of the five ERROR-class rules are violated at once, the reason
\* in a buffer large enough for them holds exactly k entries, one for each
\* violated rule, in the order of the rules.
C16_OneEntryPerViolatedRule ==
  (/\ Checked
   /\ ~qos_call.reason_null /\ qos_call.reason_size = LargeReasonSize
   /\ ViolatedRules(qos_call.publisher_qos, qos_call.subscription_qos) # {})
    => LET str == qos_ret.reason.str
           violated == ViolatedRules(qos_call.publisher_qos, qos_call.subscription_qos)
       IN /\ ErrorEntries(str) = DOMAIN str
          /\ Len(str) = Cardinality(violated)
          /\ {EntryRules(str)[i] : i \in DOMAIN str} = violated
          /\ \A i, j \in DOMAIN str : i < j => EntryRules(str)[i] < EntryRules(str)[j]

\* all five rules were violated by one pair and the reason has five entries
C16_Witness ==
  /\ Checked
  /\ ViolatedRules(qos_call.publisher_qos, qos_call.subscription_qos) = 1..5
  /\ Len(qos_ret.reason.str) = 5

\* the reason the call gives for the same pair in a buffer that holds it all
FullReason ==
  qos_profile_check_compatible(qos_call.publisher_qos, qos_call.subscription_qos,
                               FALSE, FALSE, untouched, LargeReasonSize).reason.str

\* C17: the call writes no byte beyond the first reason_size bytes of the
\* buffer; with reason_size 0, with or without a buffer, it writes nothing,
\* leaves the buffer as it was and still gives the verdict and RMW_RET_OK; a
\* buffer of non-zero size that is too small for the whole reason holds the
\* first reason_size - 1 characters of it and a null terminator.
C17_ReasonBufferDiscipline ==
  (qos_ret.fn = "check_compatible" /\ ValidArguments)
    => LET size == qos_call.reason_size
           full == FullReason
       IN /\ qos_ret.reason.high <= size
          /\ size = 0
               => /\ qos_ret.reason = qos_call.reason
                  /\ qos_ret.ret = RMW_RET_OK
                  /\ qos_ret.compatibility =
                       qos_profile_check_compatible(
                         qos_call.publisher_qos, qos_call.subscription_qos,
                         FALSE, FALSE, untouched, LargeReasonSize).compatibility
          /\ (size # 0 /\ strlen(full) >= size)
               => /\ qos_ret.reason.str = Prefix(full, size - 1)
                  /\ strlen(qos_ret.reason.str) = size - 1
                  /\ qos_ret.reason.high = size
          /\ (size # 0 /\ strlen(full) < size) => qos_ret.reason.str = full

\* a buffer of MaxSmallSize bytes was given for a longer reason
C17_Witness ==
  /\ Checked
  /\ ~qos_call.reason_null
  /\ qos_call.reason_size = MaxSmallSize
  /\ strlen(FullReason) > MaxSmallSize
  /\ strlen(qos_ret.reason.str) = MaxSmallSize - 1

\* -------------------------------------------------------------- SpecResolve
\* The best-available resolvers of part_011:392-561.  info_array is the
\* sequence of the qos_profile of each endpoint found.

\* a count that stops at one
number_of_at_most_one(info_array, policy, value) ==
  IF \E i \in DOMAIN info_array : info_array[i][policy] = value THEN 1 ELSE 0
\* part_011:419-430, number_of_reliable, number_of_transient_local and
\* number_of_manual_by_topic after the loop
number_of(info_array, policy, value) ==
  Cardinality({i \in DOMAIN info_array : info_array[i][policy] = value})

\* part_011:431-442, use_default_deadline and
\* use_default_liveliness_lease_duration after the loop
use_default(info_array, duration) ==
  \A i \in DOMAIN info_array : TimeEq(info_array[i][duration], Time(0, 0))

\* the duration of the last endpoint that has one, or none
RECURSIVE largest_is_last(_, _, _, _)
largest_is_last(info_array, duration, i, held) ==
  IF i > Len(info_array) THEN held
  ELSE LET t == info_array[i][duration]
       IN largest_is_last(info_array, duration, i + 1,
                          IF ~TimeEq(t, Time(0, 0)) THEN t ELSE held)
\* part_011:431-442, largest_deadline and largest_liveliness_lease_duration:
\* the loop from endpoint i on, with the value held so far
RECURSIVE largest(_, _, _, _)
largest(info_array, duration, i, held) ==
  IF i > Len(info_array) THEN held
  ELSE LET t == info_array[i][duration]
       IN largest(info_array, duration, i + 1,
                  IF ~TimeEq(t, Time(0, 0)) /\ TimeLess(held, t) THEN t ELSE held)

\* every subscription is MANUAL_BY_TOPIC
use_manual_by_topic_if_all(subscriptions_info) ==
  \A i \in DOMAIN subscriptions_info : subscriptions_info[i].liveliness = "MANUAL_BY_TOPIC"
\* part_011:512-521, use_manual_by_topic after the loop
use_manual_by_topic(subscriptions_info) ==
  \E i \in DOMAIN subscriptions_info : subscriptions_info[i].liveliness = "MANUAL_BY_TOPIC"

\* the least duration of the endpoints, the default included
RECURSIVE smallest_of_all(_, _, _, _)
smallest_of_all(info_array, duration, i, held) ==
  IF i > Len(info_array) THEN held
  ELSE LET t == info_array[i][duration]
       IN smallest_of_all(info_array, duration, i + 1, IF TimeLess(t, held) THEN t ELSE held)
\* the duration of the last endpoint that has one
RECURSIVE smallest_is_last(_, _, _, _)
smallest_is_last(info_array, duration, i, held) ==
  IF i > Len(info_array) THEN held
  ELSE LET t == info_array[i][duration]
       IN smallest_is_last(info_array, duration, i + 1,
                           IF ~TimeEq(t, Time(0, 0)) THEN t ELSE held)
\* part_011:522-533, smallest_deadline and smallest_liveliness_lease_duration
RECURSIVE smallest(_, _, _, _)
smallest(info_array, duration, i, held) ==
  IF i > Len(info_array) THEN held
  ELSE LET t == info_array[i][duration]
       IN smallest(info_array, duration, i + 1,
                   IF ~TimeEq(t, Time(0, 0)) /\ TimeLess(t, held) THEN t ELSE held)

ResolveRet(fn, ret, profile) == [fn |-> fn, ret |-> ret, profile |-> profile]

\* part_011:392-484.  The result carries the return code and
\* *subscription_profile after the call.
qos_profile_get_best_available_for_subscription(publishers_info_null, publishers_info, subscription_profile_null, subscription_profile) ==
  IF publishers_info_null \/ subscription_profile_null
  THEN ResolveRet("get_best_available_for_subscription", RMW_RET_INVALID_ARGUMENT,
                  subscription_profile)
  ELSE
    LET size == Len(publishers_info)
        number_of_reliable == number_of(publishers_info, "reliability", "RELIABLE")
        number_of_transient_local == number_of(publishers_info, "durability", "TRANSIENT_LOCAL")
        number_of_manual_by_topic == number_of(publishers_info, "liveliness", "MANUAL_BY_TOPIC")
        use_default_deadline == use_default(publishers_info, "deadline")
        largest_deadline == largest(publishers_info, "deadline", 1, Time(0, 0))
        use_default_liveliness_lease_duration ==
          use_default(publishers_info, "liveliness_lease_duration")
        largest_liveliness_lease_duration ==
          largest(publishers_info, "liveliness_lease_duration", 1, Time(0, 0))
    IN ResolveRet("get_best_available_for_subscription", RMW_RET_OK,
         [subscription_profile EXCEPT
            !.reliability =
              IF @ = "BEST_AVAILABLE"
              THEN (IF number_of_reliable = size THEN "RELIABLE" ELSE "BEST_EFFORT")
              ELSE @,
            !.durability =
              IF @ = "BEST_AVAILABLE"
              THEN (IF number_of_transient_local = size THEN "TRANSIENT_LOCAL" ELSE "VOLATILE")
              ELSE @,
            !.liveliness =
              IF @ = "BEST_AVAILABLE"
              THEN (IF number_of_manual_by_topic = size THEN "MANUAL_BY_TOPIC" ELSE "AUTOMATIC")
              ELSE @,
            !.deadline =
              IF TimeEq(deadline_best_available, @)
              THEN (IF use_default_deadline THEN Time(0, 0) ELSE largest_deadline)
              ELSE @,
            !.liveliness_lease_duration =
              IF TimeEq(liveliness_lease_duration_best_available, @)
              THEN (IF use_default_liveliness_lease_duration THEN Time(0, 0)
                    ELSE largest_liveliness_lease_duration)
              ELSE @])

\* part_011:486-561
qos_profile_get_best_available_for_publisher(subscriptions_info_null, subscriptions_info, publisher_profile_null, publisher_profile) ==
  IF subscriptions_info_null \/ publisher_profile_null
  THEN ResolveRet("get_best_available_for_publisher", RMW_RET_INVALID_ARGUMENT,
                  publisher_profile)
  ELSE
    LET use_default_deadline == use_default(subscriptions_info, "deadline")
        smallest_deadline == smallest(subscriptions_info, "deadline", 1, RMW_DURATION_INFINITE)
        use_default_liveliness_lease_duration ==
          use_default(subscriptions_info, "liveliness_lease_duration")
        smallest_liveliness_lease_duration ==
          smallest(subscriptions_info, "liveliness_lease_duration", 1, RMW_DURATION_INFINITE)
    IN ResolveRet("get_best_available_for_publisher", RMW_RET_OK,
         [publisher_profile EXCEPT
            !.reliability = IF @ = "BEST_AVAILABLE" THEN "RELIABLE" ELSE @,
            !.durability = IF @ = "BEST_AVAILABLE" THEN "TRANSIENT_LOCAL" ELSE @,
            !.liveliness =
              IF @ = "BEST_AVAILABLE"
              THEN (IF use_manual_by_topic(subscriptions_info) THEN "MANUAL_BY_TOPIC"
                    ELSE "AUTOMATIC")
              ELSE @,
            !.deadline =
              IF TimeEq(deadline_best_available, @)
              THEN (IF use_default_deadline THEN Time(0, 0) ELSE smallest_deadline)
              ELSE @,
            !.liveliness_lease_duration =
              IF TimeEq(liveliness_lease_duration_best_available, @)
              THEN (IF use_default_liveliness_lease_duration THEN Time(0, 0)
                    ELSE smallest_liveliness_lease_duration)
              ELSE @])

\* rmw_qos_profile_services_default: the values that part_011:650-670 reads
rmw_qos_profile_services_default ==
  QosProfile("RELIABLE", "VOLATILE", "SYSTEM_DEFAULT", Time(0, 0), Time(0, 0))

\* every field of the profile replaced by that of the services default
qos_profile_update_best_available_for_services_all(qos_profile) ==
  [fn |-> "update_best_available_for_services", profile |-> rmw_qos_profile_services_default]
\* part_011:650-670; the result carries the profile returned
qos_profile_update_best_available_for_services(qos_profile) ==
  [fn |-> "update_best_available_for_services",
   profile |->
     [qos_profile EXCEPT
        !.reliability =
          IF @ = "BEST_AVAILABLE" THEN rmw_qos_profile_services_default.reliability ELSE @,
        !.durability =
          IF @ = "BEST_AVAILABLE" THEN rmw_qos_profile_services_default.durability ELSE @,
        !.liveliness =
          IF @ = "BEST_AVAILABLE" THEN rmw_qos_profile_services_default.liveliness ELSE @,
        !.deadline =
          IF TimeEq(deadline_best_available, @)
          THEN rmw_qos_profile_services_default.deadline ELSE @,
        !.liveliness_lease_duration =
          IF TimeEq(liveliness_lease_duration_best_available, @)
          THEN rmw_qos_profile_services_default.liveliness_lease_duration ELSE @]]

\* the endpoints found have concrete policies, deadlines of none, {1,0} and
\* {1,1}, and lease durations of none and RMW_DURATION_INFINITE
PeerProfiles ==
  Profiles(ConcreteReliability, ConcreteDurability, ConcreteLiveliness,
           {Time(0, 0), Time(1, 0), Time(1, 1)}, {Time(0, 0), RMW_DURATION_INFINITE})
PeerArrays == UNION {[1..n -> PeerProfiles] : n \in 0..MaxPeers}

\* a profile with every policy BEST_AVAILABLE
BestAvailableProfile ==
  QosProfile("BEST_AVAILABLE", "BEST_AVAILABLE", "BEST_AVAILABLE",
             deadline_best_available, liveliness_lease_duration_best_available)
\* profiles with some policies BEST_AVAILABLE and some set
PartlySetProfiles ==
  Profiles({"BEST_AVAILABLE", "BEST_EFFORT"}, {"BEST_AVAILABLE", "VOLATILE"},
           {"BEST_AVAILABLE", "AUTOMATIC"}, {deadline_best_available, Time(2, 0)},
           {liveliness_lease_duration_best_available, Time(2, 0)})

\* the partly set profiles with other values of history, depth and lifespan
OtherSettings(profiles) ==
  {[p EXCEPT !.history = history, !.depth = depth, !.lifespan = lifespan] :
     p \in profiles, history \in {"KEEP_LAST", "KEEP_ALL"}, depth \in {0, 10},
     lifespan \in {Time(0, 0), Time(1, 0)}}

ResolverFunctions ==
  {"get_best_available_for_subscription", "get_best_available_for_publisher"}
ResolveCalls(info_arrays, profiles, nulls) ==
  [fn : ResolverFunctions, info_null : nulls, info_array : info_arrays,
   profile_null : nulls, profile : profiles]

InitResolve ==
  /\ qos_call \in
       ResolveCalls(PeerArrays, {BestAvailableProfile}, {FALSE})
       \cup ResolveCalls({info \in PeerArrays : Len(info) <= 1 /\
                            \A i \in DOMAIN info :
                              info[i].durability = "VOLATILE" /\ info[i].liveliness = "AUTOMATIC"},
                         OtherSettings(PartlySetProfiles), BOOLEAN)
       \cup [fn : {"update_best_available_for_services"},
             profile : OtherSettings(PartlySetProfiles) \cup {BestAvailableProfile}]
  /\ qos_ret = [fn |-> "none"]
  /\ participants = EmptyMap
  /\ seen = {}
  /\ CtxIdle /\ GraphIdle /\ LockIdle /\ TopicIdle

get_best_available_for_subscription_call ==
  /\ qos_call.fn = "get_best_available_for_subscription"
  /\ qos_ret.fn = "none"
  /\ qos_ret' = qos_profile_get_best_available_for_subscription(
                  qos_call.info_null, qos_call.info_array,
                  qos_call.profile_null, qos_call.profile)
  /\ UNCHANGED <<qos_call, otherThanQos>>

get_best_available_for_publisher_call ==
  /\ qos_call.fn = "get_best_available_for_publisher"
  /\ qos_ret.fn = "none"
  /\ qos_ret' = qos_profile_get_best_available_for_publisher(
                  qos_call.info_null, qos_call.info_array,
                  qos_call.profile_null, qos_call.profile)
  /\ UNCHANGED <<qos_call, otherThanQos>>

update_best_available_for_services_call ==
  /\ qos_call.fn = "update_best_available_for_services"
  /\ qos_ret.fn = "none"
  /\ qos_ret' = qos_profile_update_best_available_for_services(qos_call.profile)
  /\ UNCHANGED <<qos_call, otherThanQos>>

NextResolve ==
  \/ get_best_available_for_subscription_call
  \/ get_best_available_for_publisher_call
  \/ update_best_available_for_services_call

SpecResolve == InitResolve /\ [][NextResolve]_vars

\* a resolver has returned RMW_RET_OK for a profile with every policy
\* BEST_AVAILABLE and at least one endpoint
ResolvedAgainstPeers(fn) ==
  /\ qos_ret.fn = fn
  /\ qos_ret.ret = RMW_RET_OK
  /\ qos_call.profile = BestAvailableProfile
  /\ Len(qos_call.info_array) >= 1
\* the verdict of qos_profile_check_compatible for a pair
Verdict(publisher_qos, subscription_qos) ==
  qos_profile_check_compatible(publisher_qos, subscription_qos, FALSE, FALSE, untouched,
                               LargeReasonSize).compatibility

\* C18: the subscription profile resolved from a profile with every policy
\* BEST_AVAILABLE does not get the verdict ERROR with any publisher of the
\* non-empty set it was resolved against, mixtures of default and non-default
\* deadlines and lease durations included.
C18_ResolvedSubscriptionMatchesAll ==
  ResolvedAgainstPeers("get_best_available_for_subscription")
    => \A i \in DOMAIN qos_call.info_array :
         Verdict(qos_call.info_array[i], qos_ret.profile) # "ERROR"

\* C19: the publisher profile resolved from a profile with every policy
\* BEST_AVAILABLE does not get the verdict ERROR with any subscription of the
\* non-empty set it was resolved against.
C19_ResolvedPublisherMatchesAll ==
  ResolvedAgainstPeers("get_best_available_for_publisher")
    => \A i \in DOMAIN qos_call.info_array :
         Verdict(qos_ret.profile, qos_call.info_array[i]) # "ERROR"

\* a publisher was resolved against a subscription with deadline {1,0}, one
\* with deadline {1,1} and a lease duration, and took the shorter deadline
C19_Witness ==
  /\ ResolvedAgainstPeers("get_best_available_for_publisher")
  /\ \E i \in DOMAIN qos_call.info_array : qos_call.info_array[i].deadline = Time(1, 0)
  /\ \E i \in DOMAIN qos_call.info_array :
       /\ qos_call.info_array[i].deadline = Time(1, 1)
       /\ qos_call.info_array[i].liveliness_lease_duration # Time(0, 0)
       /\ qos_call.info_array[i].liveliness = "MANUAL_BY_TOPIC"
  /\ qos_ret.profile.deadline = Time(1, 0)
  /\ qos_ret.profile.liveliness = "MANUAL_BY_TOPIC"

\* every endpoint of the array has the value for the policy
AllPeers(policy, value) ==
  \A i \in DOMAIN qos_call.info_array : qos_call.info_array[i][policy] = value

\* C20: the subscription resolver gives a BEST_AVAILABLE reliability the value
\* RELIABLE if every publisher is RELIABLE and BEST_EFFORT if not, a
\* BEST_AVAILABLE durability TRANSIENT_LOCAL if every publisher is
\* TRANSIENT_LOCAL and VOLATILE if not, a BEST_AVAILABLE liveliness
\* MANUAL_BY_TOPIC if every publisher is MANUAL_BY_TOPIC and AUTOMATIC if not;
\* without publishers a profile with every policy BEST_AVAILABLE becomes
\* RELIABLE, TRANSIENT_LOCAL, MANUAL_BY_TOPIC, default deadline, default lease.
C20_AllPeersRule ==
  (qos_ret.fn = "get_best_available_for_subscription" /\ qos_ret.ret = RMW_RET_OK)
    => /\ qos_call.profile.reliability = "BEST_AVAILABLE"
            => qos_ret.profile.reliability =
                 IF AllPeers("reliability", "RELIABLE") THEN "RELIABLE" ELSE "BEST_EFFORT"
       /\ qos_call.profile.durability = "BEST_AVAILABLE"
            => qos_ret.profile.durability =
                 IF AllPeers("durability", "TRANSIENT_LOCAL") THEN "TRANSIENT_LOCAL"
                 ELSE "VOLATILE"
       /\ qos_call.profile.liveliness = "BEST_AVAILABLE"
            => qos_ret.profile.liveliness =
                 IF AllPeers("liveliness", "MANUAL_BY_TOPIC") THEN "MANUAL_BY_TOPIC"
                 ELSE "AUTOMATIC"
       /\ (qos_call.info_array = <<>> /\ qos_call.profile = BestAvailableProfile)
            => qos_ret.profile =
                 QosProfile("RELIABLE", "TRANSIENT_LOCAL", "MANUAL_BY_TOPIC",
                            Time(0, 0), Time(0, 0))

\* a subscription was resolved against two RELIABLE publishers of which one is
\* VOLATILE, and became RELIABLE and VOLATILE
C20_Witness ==
  /\ qos_ret.fn = "get_best_available_for_subscription"
  /\ qos_ret.ret = RMW_RET_OK
  /\ qos_call.profile = BestAvailableProfile
  /\ Len(qos_call.info_array) = 2
  /\ AllPeers("reliability", "RELIABLE")
  /\ ~AllPeers("durability", "TRANSIENT_LOCAL")
  /\ qos_ret.profile.reliability = "RELIABLE"
  /\ qos_ret.profile.durability = "VOLATILE"

\* the durations of the endpoints of the array
PeerDurations(duration) ==
  {qos_call.info_array[i][duration] : i \in DOMAIN qos_call.info_array}
\* the maximum of a non-empty set of durations
Maximum(times) == CHOOSE t \in times : \A u \in times : ~Greater(u, t)
\* the minimum of a non-empty set of durations
Minimum(times) == CHOOSE t \in times : \A u \in times : ~Greater(t, u)

\* C21: the subscription resolver gives a BEST_AVAILABLE deadline the default
\* if every publisher has the default deadline and otherwise the maximum of
\* the publishers' deadlines; the lease duration follows the same rule.
C21_SubscriptionDurations ==
  (qos_ret.fn = "get_best_available_for_subscription" /\ qos_ret.ret = RMW_RET_OK)
    => /\ qos_call.profile.deadline = deadline_best_available
            => qos_ret.profile.deadline =
                 IF PeerDurations("deadline") \subseteq {Time(0, 0)} THEN Time(0, 0)
                 ELSE Maximum(PeerDurations("deadline"))
       /\ qos_call.profile.liveliness_lease_duration = liveliness_lease_duration_best_available
            => qos_ret.profile.liveliness_lease_duration =
                 IF PeerDurations("liveliness_lease_duration") \subseteq {Time(0, 0)}
                 THEN Time(0, 0)
                 ELSE Maximum(PeerDurations("liveliness_lease_duration"))

\* a subscription was resolved against a publisher with deadline {1,1} and a
\* later one with deadline {1,0}, and took {1,1}
C21_Witness ==
  /\ qos_ret.fn = "get_best_available_for_subscription"
  /\ qos_ret.ret = RMW_RET_OK
  /\ qos_call.profile = BestAvailableProfile
  /\ Len(qos_call.info_array) = 2
  /\ qos_call.info_array[1].deadline = Time(1, 1)
  /\ qos_call.info_array[2].deadline = Time(1, 0)
  /\ qos_ret.profile.deadline = Time(1, 1)

\* C22: the publisher resolver gives a BEST_AVAILABLE reliability the value
\* RELIABLE and a BEST_AVAILABLE durability the value TRANSIENT_LOCAL whatever
\* the subscriptions are, and a BEST_AVAILABLE liveliness MANUAL_BY_TOPIC if at
\* least one subscription is MANUAL_BY_TOPIC and AUTOMATIC if none is.
C22_PublisherLevels ==
  (qos_ret.fn = "get_best_available_for_publisher" /\ qos_ret.ret = RMW_RET_OK)
    => /\ qos_call.profile.reliability = "BEST_AVAILABLE"
            => qos_ret.profile.reliability = "RELIABLE"
       /\ qos_call.profile.durability = "BEST_AVAILABLE"
            => qos_ret.profile.durability = "TRANSIENT_LOCAL"
       /\ qos_call.profile.liveliness = "BEST_AVAILABLE"
            => qos_ret.profile.liveliness =
                 IF \E i \in DOMAIN qos_call.info_array :
                      qos_call.info_array[i].liveliness = "MANUAL_BY_TOPIC"
                 THEN "MANUAL_BY_TOPIC" ELSE "AUTOMATIC"

\* a publisher was resolved against a BEST_EFFORT, VOLATILE, AUTOMATIC
\* subscription and a MANUAL_BY_TOPIC one
C22_Witness ==
  /\ qos_ret.fn = "get_best_available_for_publisher"
  /\ qos_ret.ret = RMW_RET_OK
  /\ qos_call.profile = BestAvailableProfile
  /\ Len(qos_call.info_array) = 2
  /\ qos_call.info_array[1].reliability = "BEST_EFFORT"
  /\ qos_call.info_array[1].durability = "VOLATILE"
  /\ qos_call.info_array[1].liveliness = "AUTOMATIC"
  /\ qos_call.info_array[2].liveliness = "MANUAL_BY_TOPIC"
  /\ qos_ret.profile.reliability = "RELIABLE"
  /\ qos_ret.profile.durability = "TRANSIENT_LOCAL"
  /\ qos_ret.profile.liveliness = "MANUAL_BY_TOPIC"

\* the durations of the endpoints that are not the default
NonDefault(times) == times \ {Time(0, 0)}

BestAvailableFields(profile) ==
  {f \in {"reliability", "durability", "liveliness"} : profile[f] = "BEST_AVAILABLE"}
  \cup (IF profile.deadline = deadline_best_available THEN {"deadline"} ELSE {})
  \cup (IF profile.liveliness_lease_duration = liveliness_lease_duration_best_available
        THEN {"liveliness_lease_duration"} ELSE {})

\* C24: the subscription resolver, the publisher resolver and the services
\* substitution change only the fields of the profile that hold BEST_AVAILABLE
\* on entry; every other field, and history, depth and lifespan always, has the
\* value after the call that it had before.
C24_OnlyBestAvailableFieldsChange ==
  qos_ret.fn \in ResolverFunctions \cup {"update_best_available_for_services"}
    => /\ DOMAIN qos_ret.profile = DOMAIN qos_call.profile
       /\ \A f \in DOMAIN qos_call.profile \ BestAvailableFields(qos_call.profile) :
            qos_ret.profile[f] = qos_call.profile[f]
       /\ \A f \in {"history", "depth", "lifespan"} :
            qos_ret.profile[f] = qos_call.profile[f]

\* the subscription resolver was given a RELIABLE publisher with a deadline and
\* a profile with BEST_EFFORT reliability, deadline {2,0} and KEEP_ALL history,
\* and resolved its durability
C24_Witness ==
  /\ qos_ret.fn = "get_best_available_for_subscription"
  /\ qos_ret.ret = RMW_RET_OK
  /\ Len(qos_call.info_array) = 1
  /\ qos_call.info_array[1].reliability = "RELIABLE"
  /\ qos_call.info_array[1].deadline = Time(1, 0)
  /\ qos_call.profile.reliability = "BEST_EFFORT"
  /\ qos_call.profile.deadline = Time(2, 0)
  /\ qos_call.profile.history = "KEEP_ALL"
  /\ qos_call.profile.durability = "BEST_AVAILABLE"
  /\ qos_ret.profile.durability = "VOLATILE"
  /\ qos_ret.profile.deadline = Time(2, 0)

\* ================================= GraphCache, the two entity maps (latest)
\* SpecEntities: one thread after another calls add_writer, add_reader,
\* remove_writer, remove_reader, add_participant and remove_participant of
\* graph_cache.cpp; each call runs under GraphCache::mutex_ and is one step.
\* gc_ret holds the last call: its arguments, what it returned and, for
\* add_writer and add_reader, the count get_writer_count / get_reader_count
\* gave for the record's topic before the call.
otherThanEntities == <<ctxVars, seen, lockVars, topicVars, qosVars>>

\* the EntityInfo that emplace constructs from the four forwarded arguments
EntityInfoOf(topic_name, type_name, participant_gid, qos) ==
  [topic_name |-> topic_name, topic_type |-> type_name,
   participant_gid |-> participant_gid, qos |-> qos]

emplace_overwrite(entities, gid, info) ==
  [entities |-> MapPut(entities, gid, info), second |-> gid \notin DOMAIN entities]
\* std::map::emplace: inserts unless the key is present; second tells which
emplace(entities, gid, info) ==
  [entities |-> IF gid \in DOMAIN entities THEN entities ELSE MapPut(entities, gid, info),
   second |-> gid \notin DOMAIN entities]

erase_reports_one(entities, gid) ==
  [entities |-> MapErase(entities, gid), count |-> 1]
\* std::map::erase(key): returns the number of elements removed
erase(entities, gid) ==
  [entities |-> MapErase(entities, gid),
   count |-> IF gid \in DOMAIN entities THEN 1 ELSE 0]

\* GraphCache::add_writer of the latest revision, on the map w = data_writers_
add_writer_info(w, gid, topic_name, type_name, participant_gid, qos) ==
  LET pair == emplace(w, gid, EntityInfoOf(topic_name, type_name, participant_gid, qos))
  IN [entities |-> pair.entities, ret |-> pair.second]

add_reader(r, gid, topic_name, type_name, participant_gid, qos) ==
  LET pair == emplace(r, gid, EntityInfoOf(topic_name, type_name, participant_gid, qos))
  IN [entities |-> pair.entities, ret |-> pair.second]

remove_writer_kept(w, gid) ==
  [entities |-> w, ret |-> erase(w, gid).count > 0]
remove_writer(w, gid) ==
  LET erased == erase(w, gid)
  IN [entities |-> erased.entities, ret |-> erased.count > 0]

remove_reader(r, gid) ==
  LET erased == erase(r, gid)
  IN [entities |-> erased.entities, ret |-> erased.count > 0]

\* __get_count: std::count_if over the map, on elem.second.topic_name
get_count(entities, topic_name) ==
  Cardinality({gid \in DOMAIN entities : entities[gid].topic_name = topic_name})

\* the records discovery reports in the calls
reliable_volatile == QosProfile("RELIABLE", "VOLATILE", "AUTOMATIC", Time(0, 0), Time(0, 0))
best_effort_transient ==
  QosProfile("BEST_EFFORT", "TRANSIENT_LOCAL", "MANUAL_BY_TOPIC", Time(1, 0), Time(2, 0))
EntityInfos ==
  {EntityInfoOf("/chatter", "String", LocalGid, reliable_volatile),
   EntityInfoOf("/chatter", "Log", RemoteGid, best_effort_transient),
   EntityInfoOf("/rosout", "Log", LocalGid, best_effort_transient)}
NoInfo == EntityInfoOf("", "", NoGid, reliable_volatile)

EntityRet(op, gid, info, count, ret) ==
  [op |-> op, gid |-> gid, info |-> info, count |-> count, ret |-> ret]

add_writer_call(gid, info) ==
  LET r == add_writer_info(data_writers, gid, info.topic_name, info.topic_type,
                           info.participant_gid, info.qos)
  IN /\ data_writers' = r.entities
     /\ gc_ret' = EntityRet("add_writer", gid, info,
                            get_count(data_writers, info.topic_name), r.ret)
     /\ UNCHANGED <<participants, data_readers, otherThanEntities>>

add_reader_call(gid, info) ==
  LET r == add_reader(data_readers, gid, info.topic_name, info.topic_type,
                      info.participant_gid, info.qos)
  IN /\ data_readers' = r.entities
     /\ gc_ret' = EntityRet("add_reader", gid, info,
                            get_count(data_readers, info.topic_name), r.ret)
     /\ UNCHANGED <<participants, data_writers, otherThanEntities>>

remove_writer_call(gid) ==
  LET r == remove_writer(data_writers, gid)
  IN /\ data_writers' = r.entities
     /\ gc_ret' = EntityRet("remove_writer", gid, NoInfo, 0, r.ret)
     /\ UNCHANGED <<participants, data_readers, otherThanEntities>>

remove_reader_call(gid) ==
  LET r == remove_reader(data_readers, gid)
  IN /\ data_readers' = r.entities
     /\ gc_ret' = EntityRet("remove_reader", gid, NoInfo, 0, r.ret)
     /\ UNCHANGED <<participants, data_writers, otherThanEntities>>

InitEntities == InitGraph

NextEntities ==
  \/ \E gid \in EntityGids, info \in EntityInfos : add_writer_call(gid, info)
  \/ \E gid \in EntityGids, info \in EntityInfos : add_reader_call(gid, info)
  \/ \E gid \in EntityGids : remove_writer_call(gid)
  \/ \E gid \in EntityGids : remove_reader_call(gid)
  \/ \E gid \in ParticipantGids : add_participant_call(gid)
  \/ \E gid \in ParticipantGids : remove_participant_call(gid)

SpecEntities == InitEntities /\ [][NextEntities]_vars

\* C25: add_writer / add_reader returns true and inserts the record iff the
\* Gid was not yet in its map; for a Gid already there it returns false and
\* the stored record (topic name, type, participant Gid, QoS) stays as it was.
C25_AddInsertsIffAbsent ==
  [][\A gid \in EntityGids, info \in EntityInfos :
       /\ add_writer_call(gid, info)
            => IF gid \in DOMAIN data_writers
               THEN gc_ret'.ret = FALSE /\ data_writers' = data_writers
               ELSE /\ gc_ret'.ret = TRUE
                    /\ DOMAIN data_writers' = DOMAIN data_writers \cup {gid}
                    /\ data_writers'[gid] = info
                    /\ \A g \in DOMAIN data_writers : data_writers'[g] = data_writers[g]
       /\ add_reader_call(gid, info)
            => IF gid \in DOMAIN data_readers
               THEN gc_ret'.ret = FALSE /\ data_readers' = data_readers
               ELSE /\ gc_ret'.ret = TRUE
                    /\ DOMAIN data_readers' = DOMAIN data_readers \cup {gid}
                    /\ data_readers'[gid] = info
                    /\ \A g \in DOMAIN data_readers : data_readers'[g] = data_readers[g]]_vars
\* a second add for a Gid was refused and the map holds the first record,
\* which differs from the one offered
C25_Witness ==
  /\ gc_ret.op \in {"add_writer", "add_reader"}
  /\ gc_ret.ret = FALSE
  /\ LET entities == IF gc_ret.op = "add_writer" THEN data_writers ELSE data_readers
     IN /\ gc_ret.gid \in DOMAIN entities
        /\ entities[gc_ret.gid] # gc_ret.info

\* C26: remove_writer, remove_reader and remove_participant for a Gid that is
\* not in the map (never added, or removed before) return false and leave the
\* three maps of the GraphCache as they were.
C26_RemovalOfAbsentGid ==
  [][/\ \A gid \in EntityGids :
          /\ remove_writer_call(gid) /\ gid \notin DOMAIN data_writers
               => gc_ret'.ret = FALSE /\ UNCHANGED gcVars
          /\ remove_reader_call(gid) /\ gid \notin DOMAIN data_readers
               => gc_ret'.ret = FALSE /\ UNCHANGED gcVars
     /\ \A gid \in ParticipantGids :
          remove_participant_call(gid) /\ gid \notin DOMAIN participants
            => gc_ret'.ret = FALSE /\ UNCHANGED gcVars]_vars
\* a removal found nothing to remove while the maps hold other entries
C26_Witness ==
  /\ gc_ret.op \in {"remove_writer", "remove_reader", "remove_participant"}
  /\ gc_ret.ret = FALSE
  /\ gc_ret.gid \notin DOMAIN (IF gc_ret.op = "remove_writer" THEN data_writers
                               ELSE IF gc_ret.op = "remove_reader" THEN data_readers
                               ELSE participants)
  /\ DOMAIN data_writers # {} /\ DOMAIN data_readers # {} /\ DOMAIN participants # {}

\* the step is remove_writer(gid) / remove_reader(gid) and the call before
\* it was add_writer / add_reader for the same Gid
WriterRoundTrip(gid) ==
  /\ gc_ret.op = "add_writer" /\ gc_ret.gid = gid
  /\ remove_writer_call(gid)
ReaderRoundTrip(gid) ==
  /\ gc_ret.op = "add_reader" /\ gc_ret.gid = gid
  /\ remove_reader_call(gid)

\* C27 as stated: add_writer(g, topic, ...) followed by remove_writer(g)
\* leaves the writer count of the topic at its value before the add, whether
\* or not g was in the map before the add; likewise for readers.
C27_RoundTripRestoresCount ==
  [][\A gid \in EntityGids :
       /\ WriterRoundTrip(gid)
            => get_count(data_writers', gc_ret.info.topic_name) = gc_ret.count
       /\ ReaderRoundTrip(gid)
            => get_count(data_readers', gc_ret.info.topic_name) = gc_ret.count]_vars
\* C27, amended: the count is restored when the add inserted the record,
\* that is when g was not in the map before the add (the add returned true).
C27_RoundTripOfNewGidRestoresCount ==
  [][\A gid \in EntityGids :
       /\ WriterRoundTrip(gid) /\ gc_ret.ret = TRUE
            => get_count(data_writers', gc_ret.info.topic_name) = gc_ret.count
       /\ ReaderRoundTrip(gid) /\ gc_ret.ret = TRUE
            => get_count(data_readers', gc_ret.info.topic_name) = gc_ret.count]_vars
\* an add of a new Gid on a topic that already had an entity, then the
\* removal of that Gid: the count is back at one
C27_Witness ==
  /\ gc_ret.op \in {"remove_writer", "remove_reader"}
  /\ gc_ret.ret = TRUE
  /\ LET entities == IF gc_ret.op = "remove_writer" THEN data_writers ELSE data_readers
     IN \E topic_name \in {"/chatter", "/rosout"} : get_count(entities, topic_name) = 1

\* ============================================ GraphCache, a node's lifecycle
\* SpecLifecycle: one thread runs the lifecycle of a node with one writer on
\* a registered participant whose node list is empty: add_node,
\* associate_writer, dissociate_writer, remove_node, with the same
\* (participant, node name, namespace).  gpc is the call it makes next and
\* gcall its arguments.  Meanwhile the discovery thread stores the gossip of
\* the other participant; each call runs under GraphCache::mutex_.
otherThanLifecycle == <<data_writers, data_readers, ctxVars, seen, topicVars, qosVars>>

LifecycleCall(gid, name, namespace_, writer_gid) ==
  GraphCacheCall("node_lifecycle", gid,
                 [node_name |-> name, node_namespace |-> namespace_, writer_gid |-> writer_gid])

\* thread t makes the call op of its lifecycle, which yields r, and goes on
\* to the call next
LifecycleStep(t, op, r, next) ==
  /\ gpc[t] = op
  /\ participants' = r.participants
  /\ gc_ret' = GcRet(op, gcall[t].gid, NoMsg, r.msg, FALSE)
  /\ gpc' = [gpc EXCEPT ![t] = next]
  /\ UNCHANGED <<gmutex, gcall, otherThanLifecycle>>

lifecycle_add_node(t) ==
  LifecycleStep(t, "add_node",
                add_node(participants, gcall[t].gid, gcall[t].arg.node_name,
                         gcall[t].arg.node_namespace),
                "associate_writer")

lifecycle_associate_writer(t) ==
  LifecycleStep(t, "associate_writer",
                associate_writer(participants, gcall[t].arg.writer_gid, gcall[t].gid,
                                 gcall[t].arg.node_name, gcall[t].arg.node_namespace),
                "dissociate_writer")

lifecycle_dissociate_writer(t) ==
  LifecycleStep(t, "dissociate_writer",
                dissociate_writer(participants, gcall[t].arg.writer_gid, gcall[t].gid,
                                  gcall[t].arg.node_name, gcall[t].arg.node_namespace),
                "remove_node")

lifecycle_remove_node(t) ==
  LifecycleStep(t, "remove_node",
                remove_node(participants, gcall[t].gid, gcall[t].arg.node_name,
                            gcall[t].arg.node_namespace),
                "done")

\* gossip of a participant other than the one whose node is being set up
lifecycle_gossip(m) ==
  /\ \A t \in Callers : gpc[t] # "idle" => gcall[t].gid # convert_msg_to_gid(m.gid)
  /\ update_participant_entities_call(m)

InitLifecycle ==
  /\ \E t \in Callers, gid \in ParticipantGids, name \in NodeNames,
        namespace_ \in NodeNamespaces, writer_gid \in EntityGids :
       /\ gpc = [u \in Callers |-> IF u = t THEN "add_node" ELSE "idle"]
       /\ gcall = [u \in Callers |-> IF u = t
                                     THEN LifecycleCall(gid, name, namespace_, writer_gid)
                                     ELSE NoGraphCall]
       /\ participants \in {add_participant(EmptyMap, gid),
                            add_participant(add_participant(EmptyMap, gid),
                                            CHOOSE other \in ParticipantGids : other # gid)}
  /\ gmutex = "free"
  /\ GraphIdle /\ CtxIdle /\ TopicIdle /\ QosIdle
  /\ seen = {}

NextLifecycle ==
  \/ \E t \in Callers : lifecycle_add_node(t)
  \/ \E t \in Callers : lifecycle_associate_writer(t)
  \/ \E t \in Callers : lifecycle_dissociate_writer(t)
  \/ \E t \in Callers : lifecycle_remove_node(t)
  \/ \E m \in GossipMsgs : lifecycle_gossip(m)

SpecLifecycle == InitLifecycle /\ [][NextLifecycle]_vars

\* C28: on a registered participant whose node list is empty, add_node,
\* associate_writer, dissociate_writer and remove_node with the same
\* (participant, node name, namespace) leave the participant's node list
\* empty; on the way the node is listed alone, with and then without the writer.
C28_LifecycleLeavesNoNode ==
  \A t \in Callers :
    LET info == participants[gcall[t].gid]
        node == NodeEntitiesInfo(gcall[t].arg.node_name, gcall[t].arg.node_namespace)
    IN /\ gpc[t] \in {"add_node", "done"} => info = <<>>
       /\ gpc[t] \in {"associate_writer", "remove_node"} => info = <<node>>
       /\ gpc[t] = "dissociate_writer"
            => info = <<[node EXCEPT !.writer_gid_seq =
                                       <<convert_gid_to_msg(gcall[t].arg.writer_gid)>>]>>
\* the four calls have run, the last one returned an empty snapshot, and the
\* other participant's gossip arrived meanwhile
C28_Witness ==
  \E t \in Callers :
    /\ gpc[t] = "done"
    /\ gc_ret.op = "remove_node"
    /\ gc_ret.gid = gcall[t].gid
    /\ gc_ret.msg.node_entities_info_seq = <<>>
    /\ participants[gcall[t].gid] = <<>>
    /\ \E other \in DOMAIN participants : participants[other] # <<>>

\* ==================================== GraphCache, the earlier dissociation
\* GraphCache::deassociate_writer of src/unnamed/part_007:233-256 erases the
\* iterator std::find_if returned without comparing it with end().  For a
\* Gid that is not in the list this is vector::erase(end()), undefined
\* behaviour: the list may stay as it is or lose its last element (the
\* process may also abort, which is no step at all).  The operator yields the
\* set of results the call can have.
deassociate_writer(p, writer_gid, participant_gid, node_name, node_namespace) ==
  LET node_info == find_node_info(p, participant_gid, node_name, node_namespace)
      info == p[participant_gid][node_info]
      it == FindIf([i \in 1..Len(info.writer_gid_seq) |->
                      info.writer_gid_seq[i] = convert_gid_to_msg(writer_gid)])
  IN IF it # 0
     THEN {modify_node_info(p, participant_gid, node_info,
                            [info EXCEPT !.writer_gid_seq = EraseAt(@, it)])}
     ELSE {modify_node_info(p, participant_gid, node_info, info)}
            \cup {modify_node_info(p, participant_gid, node_info,
                                   [info EXCEPT !.writer_gid_seq = SubSeq(@, 1, Len(@) - 1)])
                  : n \in 1..Len(info.writer_gid_seq)}

deassociate_writer_call(writer_gid, gid, name, namespace_) ==
  /\ HasNode(participants, gid, name, namespace_)
  /\ \E r \in deassociate_writer(participants, writer_gid, gid, name, namespace_) :
       SnapshotCall("deassociate_writer", gid, r)

\* SpecDeassociate: the participant API of that revision, one call after another
NextDeassociate ==
  \/ \E gid \in ParticipantGids : add_participant_call(gid)
  \/ \E gid \in ParticipantGids, name \in NodeNames, namespace_ \in NodeNamespaces :
       add_node_call(gid, name, namespace_)
  \/ \E e \in EntityGids, gid \in ParticipantGids, name \in NodeNames,
        namespace_ \in NodeNamespaces : associate_writer_call(e, gid, name, namespace_)
  \/ \E e \in EntityGids, gid \in ParticipantGids, name \in NodeNames,
        namespace_ \in NodeNamespaces : deassociate_writer_call(e, gid, name, namespace_)

SpecDeassociate == InitGraph /\ [][NextDeassociate]_vars

\* what a dissociation of Gid e from the list gid_seq must leave: the list
\* itself when e is not in it, else the list without one entry that holds e
Dissociated(gid_seq, e, gid_seq_after) ==
  IF \A k \in 1..Len(gid_seq) : gid_seq[k] # convert_gid_to_msg(e)
  THEN gid_seq_after = gid_seq
  ELSE \E k \in 1..Len(gid_seq) :
         /\ gid_seq[k] = convert_gid_to_msg(e)
         /\ gid_seq_after = EraseAt(gid_seq, k)

\* C29: dissociate_writer / dissociate_reader (deassociate_writer in the
\* earlier revision) for a Gid that is not in the matching node's list changes
\* nothing in the cache and returns the participant's unchanged node list;
\* for a Gid in the list exactly that Gid is removed from that list, and
\* nothing else changes.
C29_DissociateRemovesOnlyThatGid ==
  [][\A e \in EntityGids, gid \in ParticipantGids, name \in NodeNames,
        namespace_ \in NodeNamespaces :
       LET node_info == find_node_info(participants, gid, name, namespace_)
           info == participants[gid][node_info]
           after == participants'[gid][node_info]
       IN /\ (dissociate_writer_call(e, gid, name, namespace_)
                \/ deassociate_writer_call(e, gid, name, namespace_))
               => /\ Dissociated(info.writer_gid_seq, e, after.writer_gid_seq)
                  /\ participants' = [participants EXCEPT ![gid][node_info].writer_gid_seq =
                                                            after.writer_gid_seq]
                  /\ gc_ret'.msg = create_participant_info_message(gid, participants'[gid])
                  /\ data_writers' = data_writers /\ data_readers' = data_readers
          /\ dissociate_reader_call(e, gid, name, namespace_)
               => /\ Dissociated(info.reader_gid_seq, e, after.reader_gid_seq)
                  /\ participants' = [participants EXCEPT ![gid][node_info].reader_gid_seq =
                                                            after.reader_gid_seq]
                  /\ gc_ret'.msg = create_participant_info_message(gid, participants'[gid])
                  /\ data_writers' = data_writers /\ data_readers' = data_readers]_vars

\* C30: add_participant for a Gid that is in the participant map leaves the
\* map, and so the node list stored for that Gid with its nodes' reader and
\* writer Gid lists, as it was; for a new Gid it inserts an empty node list
\* and leaves the other participants alone.
C30_AddParticipantKeepsNodes ==
  [][\A gid \in ParticipantGids :
       add_participant_call(gid)
         => IF gid \in DOMAIN participants
            THEN participants' = participants
            ELSE /\ DOMAIN participants' = DOMAIN participants \cup {gid}
                 /\ participants'[gid] = <<>>
                 /\ \A other \in DOMAIN participants :
                      participants'[other] = participants[other]]_vars
\* add_participant has just been called for a participant that holds a node
\* with an associated Gid
C30_Witness ==
  /\ gc_ret.op = "add_participant"
  /\ gc_ret.gid \in DOMAIN participants
  /\ GidsOf(participants[gc_ret.gid]) # {}

\* ======================================== GraphCache, the queries (latest)
\* SpecQuery: discovery fills the entity maps and stores gossip, and between
\* these calls a thread asks the cache by topic or by node.  Every call runs
\* under GraphCache::mutex_ and is one step; gc_ret holds the last call, for
\* a query with its arguments and what it gave back.
otherThanQuery == <<ctxVars, seen, lockVars, topicVars, qosVars>>

RMW_RET_BAD_ALLOC == 10
RMW_RET_NODE_NAME_NON_EXISTENT == 203

\* a comparison that looks at the first byte only
lexicographical_compare_first_byte(lhs, rhs) == lhs[1] < rhs[1]
\* std::lexicographical_compare over two byte ranges
lexicographical_compare(lhs, rhs) ==
  \/ \E i \in 1..Min(Len(lhs), Len(rhs)) :
       /\ lhs[i] < rhs[i]
       /\ \A j \in 1..(i - 1) : lhs[j] = rhs[j]
  \/ /\ Len(lhs) < Len(rhs)
     /\ \A j \in 1..Len(lhs) : lhs[j] = rhs[j]

\* Compare_rmw_gid_t::operator(): the order of the three Gid-keyed maps
Compare_rmw_gid_t(lhs, rhs) == lexicographical_compare(lhs, rhs)

\* the keys of a Gid-keyed std::map in the order begin() .. end() visits them
RECURSIVE InOrder(_)
InOrder(gids) ==
  IF gids = {} THEN <<>>
  ELSE LET first == CHOOSE g \in gids : \A h \in gids \ {g} : Compare_rmw_gid_t(g, h)
       IN <<first>> \o InOrder(gids \ {first})

\* names a query reports for an entity whose node it cannot find
UnknownNode == [node_name |-> "_NODE_NAME_UNKNOWN_", node_namespace |-> "_NODE_NAMESPACE_UNKNOWN_"]

\* does the node list the entity Gid in the sequence of the asked kind
\* (std::find_if with memcmp over the Gid bytes)
ListsGid(node_info, entity_gid, is_reader) ==
  LET gid_seq == IF is_reader THEN node_info.reader_gid_seq ELSE node_info.writer_gid_seq
  IN \E j \in 1..Len(gid_seq) : gid_seq[j].data = entity_gid

\* a lookup that takes the participant's first node for the owner
find_name_and_namespace_first_node(participant_map, participant_gid, entity_gid, is_reader) ==
  IF participant_gid \notin DOMAIN participant_map \/ participant_map[participant_gid] = <<>>
  THEN [node_name |-> "", node_namespace |-> "", found |-> FALSE]
  ELSE [node_name |-> participant_map[participant_gid][1].node_name,
        node_namespace |-> participant_map[participant_gid][1].node_namespace,
        found |-> TRUE]
\* __find_name_and_namespace_from_entity_gid: the tuple {name, namespace, found}
find_name_and_namespace_from_entity_gid(participant_map, participant_gid, entity_gid, is_reader) ==
  IF participant_gid \notin DOMAIN participant_map
  THEN [node_name |-> "", node_namespace |-> "", found |-> FALSE]
  ELSE LET nodes == participant_map[participant_gid]
           it == FindIf([i \in 1..Len(nodes) |-> ListsGid(nodes[i], entity_gid, is_reader)])
       IN IF it # 0
          THEN [node_name |-> nodes[it].node_name,
                node_namespace |-> nodes[it].node_namespace, found |-> TRUE]
          ELSE [node_name |-> "", node_namespace |-> "", found |-> FALSE]

\* one rmw_topic_endpoint_info_t as the loop body fills it
endpoint_info(entities, participant_map, gid, demangle_type, is_reader) ==
  LET result == find_name_and_namespace_from_entity_gid(
                  participant_map, entities[gid].participant_gid, gid, is_reader)
  IN [node_name |-> IF result.found THEN result.node_name ELSE UnknownNode.node_name,
      node_namespace |-> IF result.found THEN result.node_namespace
                         ELSE UnknownNode.node_namespace,
      topic_type |-> demangle_type[entities[gid].topic_type],
      endpoint_type |-> IF is_reader THEN "RMW_ENDPOINT_SUBSCRIPTION"
                        ELSE "RMW_ENDPOINT_PUBLISHER",
      endpoint_gid |-> gid,
      qos_profile |-> entities[gid].qos]

\* __get_entities_info_by_topic; allocation_fails: the allocator has no
\* memory left, so rmw_topic_endpoint_info_array_init_with_size fails
get_entities_info_by_topic(entities, participant_map, topic_name, demangle_type, is_reader, allocation_fails) ==
  LET on_topic == SelectSeq(InOrder(DOMAIN entities),
                            LAMBDA gid : entities[gid].topic_name = topic_name)
      size == Len(on_topic)
  IN IF size = 0
     THEN [ret |-> RMW_RET_OK, count |-> 0, info_array |-> <<>>]
     ELSE IF allocation_fails
     THEN [ret |-> RMW_RET_BAD_ALLOC, count |-> size, info_array |-> <<>>]
     ELSE [ret |-> RMW_RET_OK, count |-> size,
           info_array |-> [i \in 1..size |->
                             endpoint_info(entities, participant_map, on_topic[i],
                                           demangle_type, is_reader)]]

\* the cache as discovery fills it in this specification
QueryTopics == {"rt/chatter", "ros_discovery_info"}
QueryTypes == {"std_msgs::msg::dds_::String_", "rcl_interfaces::msg::dds_::Log_"}
QueryWriterInfos ==
  {EntityInfoOf("rt/chatter", "std_msgs::msg::dds_::String_", LocalGid, reliable_volatile),
   EntityInfoOf("rt/chatter", "rcl_interfaces::msg::dds_::Log_", RemoteGid, best_effort_transient),
   EntityInfoOf("ros_discovery_info", "rcl_interfaces::msg::dds_::Log_", LocalGid,
                best_effort_transient)}
QueryReaderInfos ==
  {EntityInfoOf("rt/chatter", "std_msgs::msg::dds_::String_", RemoteGid, reliable_volatile)}
QueryNode(name, writer_gids, reader_gids) ==
  [NodeEntitiesInfo(name, "/") EXCEPT
     !.writer_gid_seq = [i \in 1..Len(writer_gids) |-> convert_gid_to_msg(writer_gids[i])],
     !.reader_gid_seq = [i \in 1..Len(reader_gids) |-> convert_gid_to_msg(reader_gids[i])]]
QueryLists ==
  {<<>>,
   <<QueryNode("a", <<MkGid(11)>>, <<MkGid(12)>>)>>,
   <<QueryNode("b", <<>>, <<>>), QueryNode("a", <<MkGid(12)>>, <<>>)>>,
   <<QueryNode("a", <<MkGid(11)>>, <<>>), QueryNode("a", <<MkGid(12)>>, <<MkGid(11)>>)>>}
QueryMsgs ==
  {create_participant_info_message(gid, info) : gid \in ParticipantGids, info \in QueryLists}
\* the demangle_type callbacks of the callers
RosDemangleType ==
  [type_name \in QueryTypes |->
     IF type_name = "std_msgs::msg::dds_::String_" THEN "std_msgs/msg/String"
     ELSE "rcl_interfaces/msg/Log"]
DemangleTypes == {[type_name \in QueryTypes |-> type_name], RosDemangleType}

InfoByTopicRet(op, topic_name, is_reader, allocation_fails, r) ==
  [op |-> op, topic_name |-> topic_name, is_reader |-> is_reader,
   allocation_fails |-> allocation_fails, ret |-> r.ret, count |-> r.count,
   info_array |-> r.info_array]

get_writers_info_by_topic_call(topic_name, demangle_type, allocation_fails) ==
  /\ gc_ret' = InfoByTopicRet("get_writers_info_by_topic", topic_name, FALSE, allocation_fails,
                              get_entities_info_by_topic(data_writers, participants, topic_name,
                                                         demangle_type, FALSE, allocation_fails))
  /\ UNCHANGED <<gcVars, otherThanQuery>>

get_readers_info_by_topic_call(topic_name, demangle_type, allocation_fails) ==
  /\ gc_ret' = InfoByTopicRet("get_readers_info_by_topic", topic_name, TRUE, allocation_fails,
                              get_entities_info_by_topic(data_readers, participants, topic_name,
                                                         demangle_type, TRUE, allocation_fails))
  /\ UNCHANGED <<gcVars, otherThanQuery>>

InitQuery == InitGraph

NextQueryByTopic ==
  \/ \E gid \in EntityGids, info \in QueryWriterInfos : add_writer_call(gid, info)
  \/ \E gid \in EntityGids, info \in QueryReaderInfos : add_reader_call(gid, info)
  \/ \E m \in QueryMsgs : update_participant_entities_call(m)
  \/ \E gid \in ParticipantGids : remove_participant_call(gid)
  \/ \E topic_name \in QueryTopics, demangle_type \in DemangleTypes, allocation_fails \in BOOLEAN :
       get_writers_info_by_topic_call(topic_name, demangle_type, allocation_fails)
  \/ \E topic_name \in QueryTopics, demangle_type \in DemangleTypes, allocation_fails \in BOOLEAN :
       get_readers_info_by_topic_call(topic_name, demangle_type, allocation_fails)

SpecQueryByTopic == InitQuery /\ [][NextQueryByTopic]_vars

\* the nodes of the entity's participant that list the entity in the asked role
OwningNodes(entities, gid, is_reader) ==
  IF entities[gid].participant_gid \notin DOMAIN participants THEN {}
  ELSE LET nodes == participants[entities[gid].participant_gid]
       IN {[node_name |-> nodes[i].node_name, node_namespace |-> nodes[i].node_namespace]
           : i \in {k \in 1..Len(nodes) : ListsGid(nodes[k], gid, is_reader)}}
ByTopicOps == {"get_writers_info_by_topic", "get_readers_info_by_topic"}

\* C31: in every cache state a by-topic query whose allocations succeed
\* returns OK and reports each entity of the topic once; an entity whose
\* participant is unknown, or is listed by no node of it, is reported with
\* the names _NODE_NAME_UNKNOWN_ / _NODE_NAMESPACE_UNKNOWN_, any other with
\* the name and namespace of a node that lists it.
C31_DanglingEntityReportedUnknown ==
  gc_ret.op \in ByTopicOps /\ ~gc_ret.allocation_fails =>
    LET entities == IF gc_ret.is_reader THEN data_readers ELSE data_writers
        on_topic == {gid \in DOMAIN entities : entities[gid].topic_name = gc_ret.topic_name}
        reported == {gc_ret.info_array[i] : i \in 1..Len(gc_ret.info_array)}
    IN /\ gc_ret.ret = RMW_RET_OK
       /\ Len(gc_ret.info_array) = Cardinality(on_topic)
       /\ {e.endpoint_gid : e \in reported} = on_topic
       /\ \A e \in reported :
            LET owners == OwningNodes(entities, e.endpoint_gid, gc_ret.is_reader)
                named == [node_name |-> e.node_name, node_namespace |-> e.node_namespace]
            IN IF owners = {} THEN named = UnknownNode ELSE named \in owners
\* one answer reports an entity with its node's name, one whose participant
\* is unknown and one that no node of its known participant lists
C31_Witness ==
  /\ gc_ret.op = "get_writers_info_by_topic"
  /\ gc_ret.ret = RMW_RET_OK
  /\ Len(gc_ret.info_array) = 2
  /\ \E i, j \in 1..2 :
       /\ gc_ret.info_array[i].node_name = "a"
       /\ gc_ret.info_array[j].node_name = UnknownNode.node_name
       /\ data_writers[gc_ret.info_array[j].endpoint_gid].participant_gid \notin DOMAIN participants
C31_WitnessUnlisted ==
  /\ gc_ret.op \in ByTopicOps
  /\ gc_ret.ret = RMW_RET_OK
  /\ \E i \in 1..Len(gc_ret.info_array) :
       LET entities == IF gc_ret.is_reader THEN data_readers ELSE data_writers
           owner == entities[gc_ret.info_array[i].endpoint_gid].participant_gid
       IN /\ gc_ret.info_array[i].node_name = UnknownNode.node_name
          /\ owner \in DOMAIN participants
          /\ participants[owner] # <<>>

\* a __find_node that walks the participants from the greatest Gid down
find_node_last_participant(participants_map, node_name, node_namespace) ==
  LET inorder == InOrder(DOMAIN participants_map)
      order == [k \in 1..Len(inorder) |-> inorder[Len(inorder) + 1 - k]]
      holds == [k \in 1..Len(order) |->
                  \E i \in 1..Len(participants_map[order[k]]) :
                    NodeMatches(participants_map[order[k]][i], node_name, node_namespace)]
      participant == FindIf(holds)
  IN IF participant = 0
     THEN [found |-> FALSE, participant_gid |-> NoGid, node |-> 0]
     ELSE LET nodes == participants_map[order[participant]]
          IN [found |-> TRUE, participant_gid |-> order[participant],
              node |-> FindIf([i \in 1..Len(nodes) |->
                                 NodeMatches(nodes[i], node_name, node_namespace)])]
\* ------------------------------------------------------ queries by node
\* __find_node: the first node with the name and namespace, participants in
\* map order and each node list from its begin; nullptr is found = FALSE
find_node(participants_map, node_name, node_namespace) ==
  LET order == InOrder(DOMAIN participants_map)
      holds == [k \in 1..Len(order) |->
                  \E i \in 1..Len(participants_map[order[k]]) :
                    NodeMatches(participants_map[order[k]][i], node_name, node_namespace)]
      participant == FindIf(holds)
  IN IF participant = 0
     THEN [found |-> FALSE, participant_gid |-> NoGid, node |-> 0]
     ELSE LET nodes == participants_map[order[participant]]
          IN [found |-> TRUE, participant_gid |-> order[participant],
              node |-> FindIf([i \in 1..Len(nodes) |->
                                 NodeMatches(nodes[i], node_name, node_namespace)])]

\* __get_names_and_types_from_gids: NamesAndTypes, a map from the demangled
\* topic name to the set of demangled types
get_names_and_types_from_gids(entities_map, gids, demangle_topic, demangle_type) ==
  LET known == {convert_msg_to_gid(gids[i]) : i \in 1..Len(gids)} \cap DOMAIN entities_map
      kept == {gid \in known : demangle_topic[entities_map[gid].topic_name] # ""}
  IN [name \in {demangle_topic[entities_map[gid].topic_name] : gid \in kept} |->
        {demangle_type[entities_map[gid].topic_type] :
           gid \in {g \in kept : demangle_topic[entities_map[g].topic_name] = name}}]

\* __populate_rmw_names_and_types; allocation_fails: rmw_names_and_types_init
\* or a later allocation fails and the cleanup empties the output
populate_rmw_names_and_types(topics, allocation_fails) ==
  IF DOMAIN topics = {} THEN [ret |-> RMW_RET_OK, names_and_types |-> EmptyMap]
  ELSE IF allocation_fails THEN [ret |-> RMW_RET_BAD_ALLOC, names_and_types |-> EmptyMap]
  ELSE [ret |-> RMW_RET_OK, names_and_types |-> topics]

get_entities_gids(node_info, kind) ==
  IF kind = "readers" THEN node_info.reader_gid_seq ELSE node_info.writer_gid_seq

\* a query for which a node without entities is no node
get_names_and_types_by_node_empty_is_absent(participants_map, entities_map, node_name, namespace_, demangle_topic, demangle_type, kind, arguments_valid, allocation_fails) ==
  LET node_info_ptr == find_node(participants_map, node_name, namespace_)
  IN IF ~node_info_ptr.found
        \/ get_entities_gids(participants_map[node_info_ptr.participant_gid][node_info_ptr.node],
                             kind) = <<>>
     THEN [ret |-> RMW_RET_NODE_NAME_NON_EXISTENT, names_and_types |-> EmptyMap]
     ELSE populate_rmw_names_and_types(
            get_names_and_types_from_gids(
              entities_map,
              get_entities_gids(participants_map[node_info_ptr.participant_gid][node_info_ptr.node],
                                kind),
              demangle_topic, demangle_type),
            allocation_fails)
\* __get_names_and_types_by_node; arguments_valid: the allocator is valid and
\* topic_names_and_types is zero initialized
get_names_and_types_by_node(participants_map, entities_map, node_name, namespace_, demangle_topic, demangle_type, kind, arguments_valid, allocation_fails) ==
  IF ~arguments_valid
  THEN [ret |-> RMW_RET_INVALID_ARGUMENT, names_and_types |-> EmptyMap]
  ELSE LET node_info_ptr == find_node(participants_map, node_name, namespace_)
       IN IF ~node_info_ptr.found
          THEN [ret |-> RMW_RET_NODE_NAME_NON_EXISTENT, names_and_types |-> EmptyMap]
          ELSE populate_rmw_names_and_types(
                 get_names_and_types_from_gids(
                   entities_map,
                   get_entities_gids(
                     participants_map[node_info_ptr.participant_gid][node_info_ptr.node], kind),
                   demangle_topic, demangle_type),
                 allocation_fails)

\* the demangle_topic callbacks: the identity, and the ROS one that strips
\* the prefix rt and gives "" for a topic without it
DemangleTopics ==
  {[topic_name \in QueryTopics |-> topic_name],
   [topic_name \in QueryTopics |-> IF topic_name = "rt/chatter" THEN "/chatter" ELSE ""]}
\* how a by-node query is called; an allocation can only fail in a call that
\* passed the checks of its arguments
ByNodeArguments ==
  {a \in [node_name : NodeNames, node_namespace : NodeNamespaces,
          demangle_topic : DemangleTopics, demangle_type : {RosDemangleType},
          arguments_valid : BOOLEAN, allocation_fails : BOOLEAN] :
     a.allocation_fails => a.arguments_valid}

ByNodeRet(op, kind, a, r) ==
  [op |-> op, kind |-> kind, node_name |-> a.node_name, node_namespace |-> a.node_namespace,
   demangle_topic |-> a.demangle_topic, demangle_type |-> a.demangle_type,
   arguments_valid |-> a.arguments_valid, allocation_fails |-> a.allocation_fails,
   ret |-> r.ret, names_and_types |-> r.names_and_types]

get_writer_names_and_types_by_node_call(a) ==
  /\ gc_ret' = ByNodeRet("get_writer_names_and_types_by_node", "writers", a,
                         get_names_and_types_by_node(
                           participants, data_writers, a.node_name, a.node_namespace,
                           a.demangle_topic, a.demangle_type, "writers",
                           a.arguments_valid, a.allocation_fails))
  /\ UNCHANGED <<gcVars, otherThanQuery>>

get_reader_names_and_types_by_node_call(a) ==
  /\ gc_ret' = ByNodeRet("get_reader_names_and_types_by_node", "readers", a,
                         get_names_and_types_by_node(
                           participants, data_readers, a.node_name, a.node_namespace,
                           a.demangle_topic, a.demangle_type, "readers",
                           a.arguments_valid, a.allocation_fails))
  /\ UNCHANGED <<gcVars, otherThanQuery>>

NextQueryByNode ==
  \/ \E gid \in EntityGids, info \in QueryWriterInfos : add_writer_call(gid, info)
  \/ \E gid \in EntityGids, info \in QueryReaderInfos : add_reader_call(gid, info)
  \/ \E m \in QueryMsgs : update_participant_entities_call(m)
  \/ \E gid \in ParticipantGids : remove_participant_call(gid)
  \/ \E a \in ByNodeArguments : get_writer_names_and_types_by_node_call(a)
  \/ \E a \in ByNodeArguments : get_reader_names_and_types_by_node_call(a)

SpecQueryByNode == InitQuery /\ [][NextQueryByNode]_vars

ByNodeOps == {"get_writer_names_and_types_by_node", "get_reader_names_and_types_by_node"}
\* the nodes, of any participant, with the name and namespace of the query
MatchingNodes ==
  UNION {{participants[gid][i] : i \in {k \in 1..Len(participants[gid]) :
                                          NodeMatches(participants[gid][k], gc_ret.node_name,
                                                      gc_ret.node_namespace)}}
         : gid \in DOMAIN participants}

\* C32: a by-node query with valid arguments returns
\* RMW_RET_NODE_NAME_NON_EXISTENT iff no node of any participant has the
\* name and namespace; if there are such nodes and none has an entity of the
\* asked kind, it returns RMW_RET_OK and an empty list.
C32_AbsentNodeIsNotEmptyNode ==
  gc_ret.op \in ByNodeOps /\ gc_ret.arguments_valid =>
    /\ gc_ret.ret = RMW_RET_NODE_NAME_NON_EXISTENT <=> MatchingNodes = {}
    /\ (/\ MatchingNodes # {}
        /\ \A node \in MatchingNodes : get_entities_gids(node, gc_ret.kind) = <<>>)
         => gc_ret.ret = RMW_RET_OK /\ DOMAIN gc_ret.names_and_types = {}
\* a query found its node, which has writers but no reader, and returned OK
\* with nothing in the list
C32_Witness ==
  /\ gc_ret.op = "get_reader_names_and_types_by_node"
  /\ gc_ret.arguments_valid
  /\ gc_ret.ret = RMW_RET_OK
  /\ DOMAIN gc_ret.names_and_types = {}
  /\ MatchingNodes # {}
  /\ \A node \in MatchingNodes : node.reader_gid_seq = <<>> /\ node.writer_gid_seq # <<>>

\* ================================================= TopicCache, more claims
\* C33: after any sequence of add_topic / remove_topic calls no container is
\* left empty: no topic of the global map has an empty type list, and in the
\* participant map no topic has an empty type list, no node an empty topic
\* map and no participant an empty node map.
C33_NoEmptyContainer ==
  LET pn == participant_to_nodes_to_topics
  IN /\ \A topic_name \in DOMAIN topic_to_types : topic_to_types[topic_name] # <<>>
     /\ \A gid \in DOMAIN pn :
          /\ DOMAIN pn[gid] # {}
          /\ \A pair \in DOMAIN pn[gid] :
               /\ DOMAIN pn[gid][pair] # {}
               /\ \A topic_name \in DOMAIN pn[gid][pair] : pn[gid][pair][topic_name] # <<>>
\* the removal of the last recorded tuple emptied a type list, and with it
\* the topic, the node and the participant were dropped
C33_Witness ==
  /\ tc_ret.op = "remove_topic"
  /\ tc_ret.recorded /\ tc_ret.ret /\ tc_ret.changed
  /\ topic_to_types = EmptyMap
  /\ participant_to_nodes_to_topics = EmptyMap

\* SpecTopicBalanced: add_topic with any arguments, and remove_topic for
\* tuples that were added and not yet removed as often, as the tests of
\* src/unnamed/part_003 call it.  tc_ret holds the last call and, per tuple,
\* how many adds have no remove yet.
TopicTuples == ParticipantGids \X NamespaceNamePairs \X TopicNames \X TypeNames
BalancedRet(op, ret, tuple, outstanding) ==
  [op |-> op, ret |-> ret, tuple |-> tuple, outstanding |-> outstanding]
Outstanding == IF tc_ret.op = "none" THEN [tuple \in TopicTuples |-> 0] ELSE tc_ret.outstanding

balanced_add_topic(tuple) ==
  LET r == add_topic(topic_to_types, participant_to_nodes_to_topics,
                     tuple[1], tuple[2], tuple[3], tuple[4])
  IN /\ TotalTypes(topic_to_types) < MaxRefs
     /\ topic_to_types' = r.topic_to_types
     /\ participant_to_nodes_to_topics' = r.participant_to_nodes_to_topics
     /\ tc_ret' = BalancedRet("add_topic", r.ret, tuple,
                              [Outstanding EXCEPT ![tuple] = @ + 1])
     /\ UNCHANGED otherThanTopic

balanced_remove_topic(tuple) ==
  /\ Outstanding[tuple] > 0
  /\ \E r \in remove_topic(topic_to_types, participant_to_nodes_to_topics,
                           tuple[1], tuple[2], tuple[3], tuple[4]) :
       /\ topic_to_types' = r.topic_to_types
       /\ participant_to_nodes_to_topics' = r.participant_to_nodes_to_topics
       /\ tc_ret' = BalancedRet("remove_topic", r.ret, tuple,
                                [Outstanding EXCEPT ![tuple] = @ - 1])
       /\ UNCHANGED otherThanTopic

NextTopicBalanced ==
  \/ \E tuple \in TopicTuples : balanced_add_topic(tuple)
  \/ \E tuple \in TopicTuples : balanced_remove_topic(tuple)

SpecTopicBalanced == InitTopic /\ [][NextTopicBalanced]_vars

\* occurrences of the tuple's type under its topic, node and participant
TupleCount(tuple) ==
  LET pn == participant_to_nodes_to_topics
  IN IF /\ tuple[1] \in DOMAIN pn
        /\ tuple[2] \in DOMAIN pn[tuple[1]]
        /\ tuple[3] \in DOMAIN pn[tuple[1]][tuple[2]]
     THEN Cardinality({i \in 1..Len(pn[tuple[1]][tuple[2]][tuple[3]]) :
                         pn[tuple[1]][tuple[2]][tuple[3]][i] = tuple[4]})
     ELSE 0
RECURSIVE SumOutstanding(_)
SumOutstanding(tuples) ==
  IF tuples = {} THEN 0
  ELSE LET tuple == CHOOSE x \in tuples : TRUE
       IN Outstanding[tuple] + SumOutstanding(tuples \ {tuple})

\* C34: every add_topic and every remove_topic of an added tuple succeeds,
\* and each map holds a tuple once per add that has no remove yet: a tuple
\* added twice is still recorded once after one remove and gone after two,
\* and when every add has its remove, in whatever order, both maps are empty.
C34_AddsAndRemovesCount ==
  /\ tc_ret.op # "none" => tc_ret.ret = TRUE
  /\ \A tuple \in TopicTuples : TupleCount(tuple) = Outstanding[tuple]
  /\ \A topic_name \in TopicNames, type_name \in TypeNames :
       GlobalCount(topic_name, type_name)
         = SumOutstanding({tuple \in TopicTuples :
                             tuple[3] = topic_name /\ tuple[4] = type_name})
  /\ SumOutstanding(TopicTuples) = 0
       => topic_to_types = EmptyMap /\ participant_to_nodes_to_topics = EmptyMap
\* a tuple added twice has been removed once and is still recorded once in
\* both maps
C34_Witness ==
  /\ tc_ret.op = "remove_topic"
  /\ tc_ret.ret = TRUE
  /\ Outstanding[tc_ret.tuple] = 1
  /\ TupleCount(tc_ret.tuple) = 1
  /\ topic_to_types[tc_ret.tuple[3]] = <<tc_ret.tuple[4]>>
\* the second remove of that tuple has left both maps empty
C34_WitnessEmpty ==
  /\ tc_ret.op = "remove_topic"
  /\ tc_ret.ret = TRUE
  /\ SumOutstanding(TopicTuples) = 0
  /\ topic_to_types = EmptyMap /\ participant_to_nodes_to_topics = EmptyMap

\* ===================================================== the order of Gids
\* SpecGid: Compare_rmw_gid_t is a pure function.  The initial state draws
\* three Gids (qos_call), one step compares every pair of them, another
\* emplaces them one after the other into a std::map ordered by
\* Compare_rmw_gid_t (qos_ret).  A Gid is GidLen bytes, each a uint8_t.
Bytes == {0, 1, 255}
Gids == [1..GidLen -> Bytes]

\* std::map::find of an ordered map with the keys `keys`: a key is found
\* when neither it nor the argument is less than the other
map_find(keys, gid) ==
  FindIf([i \in 1..Len(keys) |->
            ~Compare_rmw_gid_t(keys[i], gid) /\ ~Compare_rmw_gid_t(gid, keys[i])])
\* std::map::emplace on the keys: no insertion when an equivalent key is there
map_emplace(keys, gid) ==
  IF map_find(keys, gid) # 0 THEN keys
  ELSE SelectSeq(keys, LAMBDA k : Compare_rmw_gid_t(k, gid))
         \o <<gid>> \o SelectSeq(keys, LAMBDA k : ~Compare_rmw_gid_t(k, gid))

compare_gids_call ==
  /\ qos_call.fn = "Compare_rmw_gid_t"
  /\ qos_ret.fn = "none"
  /\ qos_ret' = [fn |-> "Compare_rmw_gid_t",
                 less |-> [i \in 1..3 |-> [j \in 1..3 |->
                             Compare_rmw_gid_t(qos_call.gids[i], qos_call.gids[j])]]]
  /\ UNCHANGED <<qos_call, otherThanQos>>

emplace_gids_call ==
  /\ qos_call.fn = "Compare_rmw_gid_t"
  /\ qos_ret.fn = "none"
  /\ qos_ret' = [fn |-> "emplace",
                 keys |-> map_emplace(map_emplace(map_emplace(<<>>, qos_call.gids[1]),
                                                  qos_call.gids[2]),
                                      qos_call.gids[3])]
  /\ UNCHANGED <<qos_call, otherThanQos>>

InitGid ==
  /\ qos_call \in [fn : {"Compare_rmw_gid_t"}, gids : [1..3 -> Gids]]
  /\ qos_ret = [fn |-> "none"]
  /\ participants = EmptyMap
  /\ seen = {}
  /\ CtxIdle /\ GraphIdle /\ LockIdle /\ TopicIdle

NextGid == compare_gids_call \/ emplace_gids_call

SpecGid == InitGid /\ [][NextGid]_vars

\* a is before b byte by byte: at the first position where they differ the
\* byte of a is the smaller one
BytewiseBefore(a, b) ==
  \E i \in 1..GidLen : a[i] < b[i] /\ \A j \in 1..GidLen : j < i => a[j] = b[j]

\* C35: Compare_rmw_gid_t is the byte-lexicographic order of the Gid buffer;
\* it is irreflexive, asymmetric and transitive, two Gids are equivalent
\* (neither less than the other) iff all their bytes are equal, and a map
\* ordered by it holds one entry per distinct Gid.
C35_GidOrderIsStrictTotal ==
  /\ qos_ret.fn = "Compare_rmw_gid_t" =>
       \A i, j, k \in 1..3 :
         /\ qos_ret.less[i][j] <=> BytewiseBefore(qos_call.gids[i], qos_call.gids[j])
         /\ ~qos_ret.less[i][i]
         /\ qos_ret.less[i][j] => ~qos_ret.less[j][i]
         /\ qos_ret.less[i][j] /\ qos_ret.less[j][k] => qos_ret.less[i][k]
         /\ (~qos_ret.less[i][j] /\ ~qos_ret.less[j][i])
              <=> \A n \in 1..GidLen : qos_call.gids[i][n] = qos_call.gids[j][n]
  /\ qos_ret.fn = "emplace" =>
       /\ {qos_ret.keys[n] : n \in 1..Len(qos_ret.keys)} = {qos_call.gids[i] : i \in 1..3}
       /\ Len(qos_ret.keys) = Cardinality({qos_call.gids[i] : i \in 1..3})
\* three Gids of which two are equal and the third differs from them in the
\* last byte only, and only by a byte above 127: the map holds two keys
C35_Witness ==
  /\ qos_ret.fn = "emplace"
  /\ Len(qos_ret.keys) = 2
  /\ qos_call.gids[1] = qos_call.gids[3]
  /\ qos_call.gids[1][1] = qos_call.gids[2][1]
  /\ qos_call.gids[2][GidLen] = 255

\* ============================== the Context and gossip about its own Gid
\* SpecCtxOwnGid: update_participant_entities and remove_participant take
\* GraphCache::mutex_ only and accept any Gid, the Gid of the Context's own
\* participant included; the discovery thread calls them while a Context
\* function holds node_update_mutex.
OwnMsgs == {create_participant_info_message(LocalGid, <<>>),
            create_participant_info_message(LocalGid, <<NodeEntitiesInfo("b", "/")>>)}
discovery_update_any(m) ==
  /\ participants' = update_participant_entities(participants, m)
  /\ UNCHANGED <<ctxVars, seen, otherThanCtx>>
discovery_remove_any_participant(gid) ==
  /\ gid \in DOMAIN participants
  /\ participants' = remove_participant(participants, gid).participants
  /\ UNCHANGED <<ctxVars, seen, otherThanCtx>>

\* what the two asserts of __modify_node_info require of the rollback of t
RollbackApplicable(t) ==
  HasNode(participants, LocalGid, call[t].name, call[t].namespace_)

\* update_subscriber_graph; when the rollback's dissociate_reader finds no
\* participant or no node, an assert fails, and where asserts are compiled
\* out the end iterator is dereferenced
update_subscriber_graph_own_gid(t) ==
  \/ /\ pc[t] = "rollback" => RollbackApplicable(t)
     /\ update_subscriber_graph(t)
  \/ /\ pc[t] = "rollback"
     /\ call[t].fn = "update_subscriber_graph"
     /\ ~RollbackApplicable(t)
     /\ \E outcome \in {"assert_failed", "undefined"} :
          pc' = [pc EXCEPT ![t] = outcome]
     /\ UNCHANGED <<participants, node_update_mutex, call, msg, rmw_ret, retval, pre,
                    seen, otherThanCtx>>

NextCtxOwnGid ==
  \/ \E t \in Callers : update_node_graph(t)
  \/ \E t \in Callers : update_subscriber_graph_own_gid(t)
  \/ \E t \in Callers : ContextReturn(t)
  \/ \E m \in OwnMsgs \cup RemoteMsgs : discovery_update_any(m)
  \/ \E gid \in ParticipantGids : discovery_remove_any_participant(gid)

SpecCtxOwnGid == InitCtx /\ [][NextCtxOwnGid]_vars

\* C36: whenever a Context function is about to roll back an association, the
\* local participant and the node of the call exist in the cache, whatever the
\* discovery thread has applied since the association was made.
C36_RollbackAlwaysApplicable ==
  \A t \in Callers : pc[t] = "rollback" => RollbackApplicable(t)

\* ============================================ GraphCache, add and remove node
\* SpecNodes: add_node and remove_node on registered participants, in any
\* order and with any names; gc_ret keeps the arguments of the last call and
\* the participant's node list before that call.
NodeRet(op, gid, name, namespace_, before, r) ==
  [op |-> op, gid |-> gid, node_name |-> name, node_namespace |-> namespace_,
   before |-> before, msg |-> r.msg]

add_node_recorded(gid, name, namespace_) ==
  /\ gid \in DOMAIN participants
  /\ Len(participants[gid]) < MaxNodes
  /\ LET r == add_node(participants, gid, name, namespace_)
     IN /\ participants' = r.participants
        /\ gc_ret' = NodeRet("add_node", gid, name, namespace_, participants[gid], r)
  /\ UNCHANGED otherThanGraph

remove_node_recorded(gid, name, namespace_) ==
  /\ HasNode(participants, gid, name, namespace_)
  /\ LET r == remove_node(participants, gid, name, namespace_)
     IN /\ participants' = r.participants
        /\ gc_ret' = NodeRet("remove_node", gid, name, namespace_, participants[gid], r)
  /\ UNCHANGED otherThanGraph

NextNodes ==
  \/ \E gid \in ParticipantGids : add_participant_call(gid)
  \/ \E gid \in ParticipantGids, name \in NodeNames, namespace_ \in NodeNamespaces :
       add_node_recorded(gid, name, namespace_)
  \/ \E gid \in ParticipantGids, name \in NodeNames, namespace_ \in NodeNamespaces :
       remove_node_recorded(gid, name, namespace_)

SpecNodes == InitGraph /\ [][NextNodes]_vars

\* the step is remove_node(gid, name, namespace_) and the call before it was
\* add_node with the same arguments
NodeRoundTrip(gid, name, namespace_) ==
  /\ gc_ret.op = "add_node" /\ gc_ret.gid = gid
  /\ gc_ret.node_name = name /\ gc_ret.node_namespace = namespace_
  /\ remove_node_recorded(gid, name, namespace_)

\* C37 as stated: add_node(p, name, ns) followed by remove_node(p, name, ns)
\* leaves the node list of p at its value before the add_node, also when p
\* had a node with the same (name, namespace) before the add.
C37_AddRemoveNodeInverse ==
  [][\A gid \in ParticipantGids, name \in NodeNames, namespace_ \in NodeNamespaces :
       NodeRoundTrip(gid, name, namespace_) => participants'[gid] = gc_ret.before]_vars
\* what does hold: the node list is restored when p had no node with that
\* (name, namespace) before the add_node.
C37_AddRemoveOfNewNodeInverse ==
  [][\A gid \in ParticipantGids, name \in NodeNames, namespace_ \in NodeNamespaces :
       /\ NodeRoundTrip(gid, name, namespace_)
       /\ \A i \in 1..Len(gc_ret.before) : ~NodeMatches(gc_ret.before[i], name, namespace_)
       => participants'[gid] = gc_ret.before]_vars
\* a remove_node has undone the append of a node to a list that held a node
\* of another name, which is still there
C37_Witness ==
  /\ gc_ret.op = "remove_node"
  /\ participants[gc_ret.gid] # <<>>
  /\ gc_ret.before = Append(participants[gc_ret.gid],
                            NodeEntitiesInfo(gc_ret.node_name, gc_ret.node_namespace))

\* ============================================ by-node queries, first match
\* the node a by-node query must resolve: of the participants that have a
\* node with the name and namespace of the query, the one with the least Gid,
\* and of its matching nodes the one that comes first in its list
FirstMatchingNode ==
  LET hosts == {gid \in DOMAIN participants :
                  HasNode(participants, gid, gc_ret.node_name, gc_ret.node_namespace)}
      first == CHOOSE gid \in hosts : \A other \in hosts \ {gid} : BytewiseBefore(gid, other)
      Matches(i) == NodeMatches(participants[first][i], gc_ret.node_name, gc_ret.node_namespace)
      node == CHOOSE i \in 1..Len(participants[first]) :
                Matches(i) /\ \A j \in 1..(i - 1) : ~Matches(j)
  IN participants[first][node]
\* the names and types of the entities of the asked kind that `nodes` list
ResolvedFrom(nodes) ==
  LET entities_map == IF gc_ret.kind = "readers" THEN data_readers ELSE data_writers
      listed == UNION {{convert_msg_to_gid(get_entities_gids(node, gc_ret.kind)[i]) :
                          i \in 1..Len(get_entities_gids(node, gc_ret.kind))} : node \in nodes}
      kept == {gid \in listed \cap DOMAIN entities_map :
                 gc_ret.demangle_topic[entities_map[gid].topic_name] # ""}
  IN {<<gc_ret.demangle_topic[entities_map[gid].topic_name],
        gc_ret.demangle_type[entities_map[gid].topic_type]>> : gid \in kept}
\* what the query returned, as (topic, type) pairs
Returned ==
  UNION {{<<name, type>> : type \in gc_ret.names_and_types[name]}
         : name \in DOMAIN gc_ret.names_and_types}

\* C38: a by-node query that succeeds returns the topics and types of the
\* entities of one node only, the first matching node in the order of the
\* participants' Gids and of the node list, also when other nodes with the
\* same name and namespace exist; it does not return the union over them.
C38_FirstMatchWins ==
  (/\ gc_ret.op \in ByNodeOps
   /\ gc_ret.arguments_valid /\ ~gc_ret.allocation_fails
   /\ MatchingNodes # {})
    => /\ gc_ret.ret = RMW_RET_OK
       /\ Returned = ResolvedFrom({FirstMatchingNode})
\* two participants each have a node with the name of the query, the later
\* participant's node lists a known writer on a topic that the first one's
\* does not, and the query returned something, but not that topic
C38_Witness ==
  /\ gc_ret.op = "get_writer_names_and_types_by_node"
  /\ gc_ret.ret = RMW_RET_OK
  /\ \A gid \in ParticipantGids :
       HasNode(participants, gid, gc_ret.node_name, gc_ret.node_namespace)
  /\ Returned # {}
  /\ Returned # ResolvedFrom(MatchingNodes)
  /\ Returned = ResolvedFrom({FirstMatchingNode})

\* ========================================== clamp_rmw_time_to_dds_time
\* SpecClamp: clamp_rmw_time_to_dds_time is a pure function of an rmw_time_t,
\* two uint64_t.  The model keeps the arithmetic and scales the widths: a
\* uint64_t has TimeBits bits, an int has IntBits bits and a second has
\* 10^NsDigits nanoseconds, so that, as in the source, the nanoseconds alone
\* can hold more seconds than INT_MAX.
TimeBits == 6
IntBits == 3
NsDigits == 1
UINT64_MAX == 2^TimeBits - 1
INT_MAX == 2^(IntBits - 1) - 1
\* the value of a uint64_t expression
U64(x) == x % (UINT64_MAX + 1)

\* constexpr uint64_t sec_to_ns = 1000000000ULL
sec_to_ns == 10^NsDigits

\* a clamp that saturates already when the seconds reach INT_MAX
clamp_rmw_time_to_dds_time_early(time) ==
  IF time.sec + time.nsec \div sec_to_ns >= INT_MAX
  THEN Time(INT_MAX, sec_to_ns - 1)
  ELSE Time(time.sec + time.nsec \div sec_to_ns, time.nsec % sec_to_ns)
clamp_rmw_time_to_dds_time(time) ==
  LET adjust == time.nsec \div sec_to_ns
      overflow_nsec == adjust > INT_MAX
      ns_sec_adjust == IF overflow_nsec THEN INT_MAX ELSE adjust
      overflow_sec == time.sec > U64(INT_MAX - ns_sec_adjust)
      sec == IF overflow_sec THEN INT_MAX ELSE U64(time.sec + ns_sec_adjust)
  IN IF overflow_nsec \/ overflow_sec
     THEN Time(sec, sec_to_ns - 1)
     ELSE Time(sec, U64(time.nsec - ns_sec_adjust * sec_to_ns))

clamp_rmw_time_to_dds_time_call ==
  /\ qos_call.fn = "clamp_rmw_time_to_dds_time"
  /\ qos_ret.fn = "none"
  /\ qos_ret' = [fn |-> "clamp_rmw_time_to_dds_time",
                 t |-> clamp_rmw_time_to_dds_time(qos_call.time)]
  /\ UNCHANGED <<qos_call, otherThanQos>>

InitClamp ==
  /\ qos_call \in [fn : {"clamp_rmw_time_to_dds_time"},
                   time : [sec : 0..UINT64_MAX, nsec : 0..UINT64_MAX]]
  /\ qos_ret = [fn |-> "none"]
  /\ participants = EmptyMap
  /\ seen = {}
  /\ CtxIdle /\ GraphIdle /\ LockIdle /\ TopicIdle

NextClamp == clamp_rmw_time_to_dds_time_call

SpecClamp == InitClamp /\ [][NextClamp]_vars

\* the length of a time in nanoseconds, and the longest one DDS can hold
TotalNs(time) == time.sec * sec_to_ns + time.nsec
LongestDdsNs == INT_MAX * sec_to_ns + (sec_to_ns - 1)

\* C39: the result of clamp_rmw_time_to_dds_time has nsec < 10^9 and
\* sec <= INT_MAX; when the input's total length fits these bounds the result
\* has the same total length (and is the input itself when the input is
\* within the bounds already), otherwise the result is INT_MAX seconds and
\* 10^9 - 1 nanoseconds.
C39_ClampNormalizesOrSaturates ==
  qos_ret.fn = "clamp_rmw_time_to_dds_time" =>
    /\ qos_ret.t.nsec < sec_to_ns
    /\ qos_ret.t.sec <= INT_MAX
    /\ TotalNs(qos_call.time) <= LongestDdsNs => TotalNs(qos_ret.t) = TotalNs(qos_call.time)
    /\ (qos_call.time.nsec < sec_to_ns /\ qos_call.time.sec <= INT_MAX)
         => TimeEq(qos_ret.t, qos_call.time)
    /\ TotalNs(qos_call.time) > LongestDdsNs => TimeEq(qos_ret.t, Time(INT_MAX, sec_to_ns - 1))
\* an input with more than a second of nanoseconds whose length just fits:
\* the result has INT_MAX seconds and is not the saturated value
C39_Witness ==
  /\ qos_ret.fn = "clamp_rmw_time_to_dds_time"
  /\ qos_call.time.nsec >= sec_to_ns
  /\ qos_ret.t.sec = INT_MAX
  /\ qos_ret.t.nsec < sec_to_ns - 1
\* an input whose nanoseconds alone hold more than INT_MAX seconds: saturated
C39_WitnessSaturated ==
  /\ qos_ret.fn = "clamp_rmw_time_to_dds_time"
  /\ qos_call.time.sec = 0
  /\ qos_call.time.nsec \div sec_to_ns > INT_MAX
  /\ TimeEq(qos_ret.t, Time(INT_MAX, sec_to_ns - 1))

\* ============================================ TopicCache, query by node
\* SpecTopicByNode: add_topic and remove_topic as in SpecTopic, and
\* TopicCache::get_names_and_types_by_node.  NamesAndTypes, a vector of
\* (demangled topic name, types) in the iteration order of an unordered_map,
\* is modelled by the map from the name to the types.

\* __get_names_and_types of the TopicCache: the topics whose demangled name
\* is not "", under that name
topic_cache_get_names_and_types(topic_to_types_map, demangle_topic) ==
  LET kept == {topic_name \in DOMAIN topic_to_types_map : demangle_topic[topic_name] # ""}
  IN [name \in {demangle_topic[topic_name] : topic_name \in kept} |->
        topic_to_types_map[CHOOSE topic_name \in kept : demangle_topic[topic_name] = name]]

\* __get_names_and_types_by_node of the TopicCache: `topics` is returned as
\* it was constructed; the value of the call of __get_names_and_types in the
\* last statement but one is not assigned to it
topic_cache_get_names_and_types_by_node(pn, gid, node_name, namespace_, demangle_topic) ==
  LET topics == EmptyMap
      pair == <<namespace_, node_name>>
  IN IF gid \notin DOMAIN pn THEN topics
     ELSE IF pair \notin DOMAIN pn[gid] THEN topics
     ELSE LET discarded == topic_cache_get_names_and_types(pn[gid][pair], demangle_topic)
          IN topics

\* __copy_data_to_results; allocation_fails: rmw_names_and_types_init or a
\* later allocation fails, and the output is empty after the cleanup
copy_data_to_results(topics, demangle_type, allocation_fails) ==
  IF DOMAIN topics = {} THEN [ret |-> RMW_RET_OK, names_and_types |-> EmptyMap]
  ELSE IF allocation_fails THEN [ret |-> RMW_RET_BAD_ALLOC, names_and_types |-> EmptyMap]
  ELSE [ret |-> RMW_RET_OK,
        names_and_types |->
          [name \in DOMAIN topics |->
             [i \in 1..Len(topics[name]) |-> demangle_type[topics[name][i]]]]]

\* the callbacks of the callers: the identity, and for the topics one that
\* gives "" for /rosout, for the types one that puts msg/ before the name
TopicCacheDemangleTopics ==
  {[topic_name \in TopicNames |-> topic_name],
   [topic_name \in TopicNames |-> IF topic_name = "/rosout" THEN "" ELSE topic_name]}
TopicCacheDemangleTypes ==
  {[type_name \in TypeNames |-> type_name],
   [type_name \in TypeNames |-> IF type_name = "String" THEN "msg/String" ELSE "msg/Log"]}

topic_cache_get_names_and_types_by_node_call(gid, pair, demangle_topic, demangle_type, allocation_fails) ==
  LET topics == topic_cache_get_names_and_types_by_node(
                  participant_to_nodes_to_topics, gid, pair[2], pair[1], demangle_topic)
      r == copy_data_to_results(topics, demangle_type, allocation_fails)
  IN /\ tc_ret' = [op |-> "get_names_and_types_by_node", gid |-> gid, pair |-> pair,
                   demangle_topic |-> demangle_topic, demangle_type |-> demangle_type,
                   allocation_fails |-> allocation_fails,
                   ret |-> r.ret, names_and_types |-> r.names_and_types]
     /\ UNCHANGED <<topic_to_types, participant_to_nodes_to_topics, otherThanTopic>>

NextTopicByNode ==
  \/ \E gid \in ParticipantGids, pair \in NamespaceNamePairs, topic_name \in TopicNames,
        type_name \in TypeNames : add_topic_call(gid, pair, topic_name, type_name)
  \/ \E gid \in ParticipantGids, pair \in NamespaceNamePairs, topic_name \in TopicNames,
        type_name \in TypeNames : remove_topic_call(gid, pair, topic_name, type_name)
  \/ \E gid \in ParticipantGids, pair \in NamespaceNamePairs,
        demangle_topic \in TopicCacheDemangleTopics, demangle_type \in TopicCacheDemangleTypes,
        allocation_fails \in BOOLEAN :
       topic_cache_get_names_and_types_by_node_call(gid, pair, demangle_topic, demangle_type,
                                                    allocation_fails)

SpecTopicByNode == InitTopic /\ [][NextTopicByNode]_vars

\* C40: for a (gid, namespace, node) entry that exists, and when no
\* allocation fails, TopicCache::get_names_and_types_by_node returns exactly
\* the topics recorded for the entry whose demangled name is not "", each
\* with its recorded types; so the result is not empty when there is such a
\* topic.
C40_ByNodeReturnsRecordedTopics ==
  LET pn == participant_to_nodes_to_topics
  IN (/\ tc_ret.op = "get_names_and_types_by_node"
      /\ ~tc_ret.allocation_fails
      /\ tc_ret.gid \in DOMAIN pn
      /\ tc_ret.pair \in DOMAIN pn[tc_ret.gid])
       => LET recorded == pn[tc_ret.gid][tc_ret.pair]
              kept == {topic_name \in DOMAIN recorded : tc_ret.demangle_topic[topic_name] # ""}
          IN /\ tc_ret.ret = RMW_RET_OK
             /\ DOMAIN tc_ret.names_and_types = {tc_ret.demangle_topic[topic_name] : topic_name \in kept}
             /\ \A topic_name \in kept :
                  tc_ret.names_and_types[tc_ret.demangle_topic[topic_name]] =
                    [i \in 1..Len(recorded[topic_name]) |->
                       tc_ret.demangle_type[recorded[topic_name][i]]]
====
